---- MODULE Spec2Model ----
(***************************************************************************)
(* PowderCore: the falling-sand engine of src/src/lib.rs as a state        *)
(* machine.  A World is a row-major cell buffer, its dimensions and the    *)
(* state of a 64-bit LCG.  One tick (World::step) is modelled as           *)
(* StepBegin, one Visit per loop iteration of the scan (a whole handler    *)
(* invocation each), and StepEnd; the host's calls (place_brush, set_cell, *)
(* clear, resize) are one action each and are enabled between ticks only.  *)
(* A panic ends the process: pc = "aborted" and no action is enabled.      *)
(***************************************************************************)
EXTENDS Integers, Sequences, FiniteSets, TLC

VARIABLES
    width,      \* World.width
    height,     \* World.height
    cells,      \* World.cells: [0 .. n-1 -> Cell]
    rng,        \* World.rng.state, four 16-bit limbs, least significant first
    updated,    \* the update mask of the running step (<<>> between ticks)
    pc,         \* "idle" between host calls, "step" inside World::step, "aborted"
    pos,        \* number of loop iterations of the running step done so far
    ticks,      \* completed calls of step
    nops,       \* host authoring calls made so far
    todo,       \* the authoring calls the host's script still holds
    ret,        \* value returned by the last set_cell call
    last,       \* the last host call or handler invocation, with its arguments
    pre,        \* the cell buffer before the last host call or handler invocation
    tick0,      \* the cell buffer when the running (or last) step began
    grid0,      \* the cell buffer when the first step began
    exlog,      \* the explode calls of the last handler invocation
    writes,     \* per cell: handler invocations of this tick that changed it
    visits,     \* per cell: handler invocations of this tick dispatched on it
    track,      \* index of the followed Fire particle, -1 when none, -2 when gone
    checked,    \* whether the build checks integer overflow (panic) or wraps
    drawn       \* the seed given to new, then the calls made on the generator alone

vars == <<width, height, cells, rng, updated, pc, pos, ticks, nops, todo, ret,
          last, pre, tick0, grid0, exlog, writes, visits, track, checked, drawn>>

(***************************************************************************)
(* Elements and cells                                                      *)
(***************************************************************************)
Element ==
    {"Empty", "Sand", "Gunpowder", "Ash", "Snow",
     "Water", "SaltWater", "Oil", "Ethanol", "Acid", "Lava", "Mercury",
     "Stone", "Glass", "Wall", "Wood", "Plant", "Metal", "Wire", "Ice",
     "Coal", "Dirt", "WetDirt", "Seaweed",
     "Smoke", "Steam", "Gas", "ToxicGas", "Hydrogen", "Chlorine",
     "Fire", "Lightning", "Human", "Zombie"}

Cell(e, l) == [elem |-> e, life |-> l]

DefaultCell == Cell("Empty", 0)

is_sand_like(e) == e \in {"Sand", "Gunpowder", "Ash", "Snow"}

is_liquid(e) ==
    e \in {"Water", "SaltWater", "Oil", "Ethanol", "Acid", "Lava", "Mercury"}

is_gas(e) == e \in {"Smoke", "Steam", "Gas", "ToxicGas", "Hydrogen", "Chlorine"}

is_flammable(e) ==
    e \in {"Wood", "Plant", "Oil", "Ethanol", "Gunpowder", "Coal", "Seaweed"}

is_dissolvable(e) ==
    e \in {"Sand", "Stone", "Glass", "Wood", "Plant", "Metal", "Wire", "Ash",
           "Coal", "Seaweed", "Dirt", "WetDirt"}

\* a density table in which every element weighs the same
density_flat(e) == 100

density(e) ==
    CASE e = "Ethanol" -> 85
      [] e = "Oil" -> 90
      [] e \in {"Gas", "Hydrogen"} -> 1
      [] e = "Steam" -> 2
      [] e = "Smoke" -> 3
      [] e = "Chlorine" -> 5
      [] e = "Water" -> 100
      [] e = "SaltWater" -> 103
      [] e = "Acid" -> 110
      [] e = "Lava" -> 160
      [] e = "Mercury" -> 200
      [] OTHER -> 999

is_hazard(e) ==
    e \in {"Fire", "Lava", "Acid", "ToxicGas", "Chlorine", "Lightning"}

\* a list of indestructible elements that leaves Ice out
is_indestructible_but_ice(e) == e \in {"Wall", "Stone", "Glass", "Metal", "Wire"}

\* a list of indestructible elements that leaves Wall out
is_indestructible_but_wall(e) == e \in {"Stone", "Glass", "Metal", "Wire", "Ice"}

is_indestructible(e) == e \in {"Wall", "Stone", "Glass", "Metal", "Wire", "Ice"}

Max(a, b) == IF a >= b THEN a ELSE b

(***************************************************************************)
(* Rng: state*1664525 + 1013904223 mod 2^64 on 16-bit limbs (TLC's         *)
(* integers are 32 bits wide); next_u32 is bits 16..47 of the new state.   *)
(***************************************************************************)
LcgMul == 1664525
LcgInc == 1013904223
Limb == 65536

ZeroSeed == <<0, 0, 0, 0>>
\* 0xDEADBEEFCAFEBABE
DefaultSeed == <<47806, 51966, 48879, 57005>>

\* a constructor that takes every seed as it is
RngNew_raw(seed) == seed

RngNew(seed) == IF seed = ZeroSeed THEN DefaultSeed ELSE seed

next_state(s) ==
    LET ml == LcgMul % Limb
        mh == LcgMul \div Limb
        t0 == s[1] * ml + (LcgInc % Limb)
        t1 == s[2] * ml + s[1] * mh + (LcgInc \div Limb) + (t0 \div Limb)
        t2 == s[3] * ml + s[2] * mh + (t1 \div Limb)
        t3 == s[4] * ml + s[3] * mh + (t2 \div Limb)
    IN  <<t0 % Limb, t1 % Limb, t2 % Limb, t3 % Limb>>

\* bits 32..63 of the state in place of bits 16..47
Bits_top(n) == [hi |-> n[4], lo |-> n[3]]

\* (state >> 16) as u32 of a state already advanced, as [hi, lo] 16-bit halves
Bits(n) == [hi |-> n[3], lo |-> n[2]]

next_u32(s) == Bits(next_state(s))

\* a u32 value modulo a small m
U32Mod(v, m) == (((v.hi % m) * (Limb % m)) + (v.lo % m)) % m

\* the result of a draw that left the generator in state n
Ranged(n, min, span) == [rng |-> n, v |-> min + U32Mod(Bits(n), span)]

\* a comparison that also succeeds on equality
Chanced_inclusive(n, pct) == [rng |-> n, b |-> U32Mod(Bits(n), 100) <= pct]

Chanced(n, pct) == [rng |-> n, b |-> U32Mod(Bits(n), 100) < pct]

\* a range_i32 that draws twice and uses the second value
range_i32_twice(s, min, max) ==
    Ranged(next_state(next_state(s)), min, Max(max - min + 1, 1))

\* range_i32: [rng |-> new state, v |-> value]
range_i32(s, min, max) == Ranged(next_state(s), min, Max(max - min + 1, 1))

\* chance: [rng |-> new state, b |-> outcome]
chance(s, pct) ==
    IF pct = 0 THEN [rng |-> s, b |-> FALSE]
    ELSE IF pct >= 100 THEN [rng |-> s, b |-> TRUE]
    ELSE Chanced(next_state(s), pct)

(***************************************************************************)
(* i32 products.  `a * b` on i32 panics on overflow in a build with         *)
(* overflow checks and wraps modulo 2^32 in a build without them.  Both     *)
(* operators are for operands of the same sign (dimensions after max(0),    *)
(* a radius with itself).                                                   *)
(***************************************************************************)
Abs(a) == IF a < 0 THEN -a ELSE a

Half == Limb \div 2

I32Max == (Half - 1) * Limb + (Limb - 1)

\* whether a * b does not fit in an i32
Overflows(a, b) == a # 0 /\ Abs(b) > I32Max \div Abs(a)

\* al * bl modulo 2^17 for 16-bit al, bl, given A = al * (bl \div 2)
LowProduct(al, bl, A) == 2 * (A % Half) + (bl % 2) * al

\* (a * b) mod 2^32 from the 16-bit limbs of a and b, as [hi, lo]
MulLimbs(al, ah, bl, bh, A) ==
    [lo |-> LowProduct(al, bl, A) % Limb,
     hi |-> ((A \div Half) + (LowProduct(al, bl, A) \div Limb)
             + ((ah * bl) % Limb) + ((al * bh) % Limb)) % Limb]

\* a u32 given by its limbs, reinterpreted as i32
AsI32(v) == IF v.hi >= Half THEN (v.hi - Limb) * Limb + v.lo ELSE v.hi * Limb + v.lo

MulAbs(a, b) ==
    AsI32(MulLimbs(a % Limb, a \div Limb, b % Limb, b \div Limb, (a % Limb) * ((b % Limb) \div 2)))

\* i32::wrapping_mul(a, b)
wrapping_mul(a, b) == MulAbs(Abs(a), Abs(b))

\* `l += 1` on an i32 in a build without overflow checks
wrapping_inc(l) == IF l = I32Max THEN (-I32Max) - 1 ELSE l + 1

(***************************************************************************)
(* World helpers.  A world value W is a record of the World fields plus    *)
(* the mask of the running step and the log of explode calls.              *)
(***************************************************************************)

BufSize(w, h) == Max(wrapping_mul(w, h), 0)

EmptyBuf(w, h) == [i \in 0 .. (BufSize(w, h) - 1) |-> DefaultCell]

in_bounds(W, x, y) == x >= 0 /\ x < W.width /\ y >= 0 /\ y < W.height

idx(W, x, y) == y * W.width + x

ElemAt(W, x, y) == W.cells[idx(W, x, y)].elem

\* in_bounds(x, y) && cells[idx(x, y)].elem is in S
InAnd(W, x, y, S) == in_bounds(W, x, y) /\ ElemAt(W, x, y) \in S

SetAt(W, i, c) == [W EXCEPT !.cells[i] = c]

SetLife(W, i, l) == [W EXCEPT !.cells[i].life = l]

\* self.cells.swap(i, j)
Swap(W, i, j) == [W EXCEPT !.cells[i] = W.cells[j], !.cells[j] = W.cells[i]]

Mark(W, i) == [W EXCEPT !.updated[i] = TRUE]

WithRng(W, s) == [W EXCEPT !.rng = s]

\* a loop over seq with the loop-carried state acc0: the left fold of Op, in
\* order.  It is evaluated by halves, and the state after the first half is
\* compared with itself so that it is a value before the second half starts:
\* the evaluation then nests no deeper than the logarithm of the length.
Fold(Op(_, _), acc0, seq) ==
    LET RECURSIVE Run(_, _, _)
        Run(acc, lo, hi) ==
            IF lo > hi THEN acc
            ELSE IF lo = hi THEN Op(acc, seq[lo])
            ELSE LET mid == (lo + hi) \div 2
                     left == Run(acc, lo, mid)
                 IN  IF left = left THEN Run(left, mid + 1, hi) ELSE left
    IN  Run(acc0, 1, Len(seq))

\* for dy in -r..=r { for dx in -r..=r { .. } } as the sequence of <<dx, dy>>
Offs(r) ==
    [k \in 1 .. ((2 * r + 1) * (2 * r + 1)) |->
        <<((k - 1) % (2 * r + 1)) - r, ((k - 1) \div (2 * r + 1)) - r>>]

Offs1 == Offs(1)
Offs2 == Offs(2)
Offs4 == Offs(4)
Offs5 == Offs(5)
Offs6 == Offs(6)

OffsOf(r) ==
    CASE r = 1 -> Offs1 [] r = 2 -> Offs2 [] r = 4 -> Offs4
      [] r = 5 -> Offs5 [] r = 6 -> Offs6
      [] r < 0 -> <<>>
      [] OTHER -> Offs(r)

\* the eight neighbours: the 3x3 loop with (0,0) skipped
Nbr8 == SelectSeq(Offs1, LAMBDA o : o # <<0, 0>>)
Nbr24 == SelectSeq(Offs2, LAMBDA o : o # <<0, 0>>)

(***************************************************************************)
(* Placement and explosion                                                 *)
(***************************************************************************)
BrushLife(elem) ==
    IF elem = "Fire" THEN 20 ELSE IF is_gas(elem) THEN 25 ELSE 0

InRadius(dx, dy, r) == ~(dx * dx + dy * dy > wrapping_mul(r, r))

RECURSIVE BoltEnd(_, _, _)
BoltEnd(W, x, y) ==
    IF y + 1 < W.height
       /\ (ElemAt(W, x, y + 1) = "Empty" \/ is_gas(ElemAt(W, x, y + 1)))
    THEN BoltEnd(W, x, y + 1)
    ELSE y

\* a bolt that does not stop at the first solid cell: it runs to the bottom row
place_lightning_through(W, cx, cy) ==
    IF ~in_bounds(W, cx, cy) THEN W
    ELSE [W EXCEPT !.cells =
            [i \in DOMAIN W.cells |->
                IF i % W.width = cx /\ i \div W.width >= cy
                THEN Cell("Lightning", 2) ELSE W.cells[i]]]

place_lightning(W, cx, cy) ==
    IF ~in_bounds(W, cx, cy) THEN W
    ELSE
        LET y == BoltEnd(W, cx, cy)
            W1 == [W EXCEPT !.cells =
                     [i \in DOMAIN W.cells |->
                        IF \E yy \in cy .. y : i = idx(W, cx, yy)
                        THEN Cell("Lightning", 2) ELSE W.cells[i]]]
            ib == idx(W, cx, y + 1)
        IN  IF y + 1 < W.height /\ W1.cells[ib].elem \in {"Water", "SaltWater"}
            THEN SetLife(W1, ib, Max(W1.cells[ib].life, 8))
            ELSE W1

Min(a, b) == IF a <= b THEN a ELSE b

\* the iterations of `for d in -r..=r` that put c + d into 0 .. n-1
Span(c, r, n) == Max(-r, -c) .. Min(r, n - 1 - c)

\* the iterations of the dy/dx loops whose cell is in bounds, in loop order
Box(W, cx, cy, r) ==
    [k \in 1 .. (Cardinality(Span(cx, r, W.width)) * Cardinality(Span(cy, r, W.height))) |->
        <<Max(-r, -cx) + ((k - 1) % Cardinality(Span(cx, r, W.width))),
          Max(-r, -cy) + ((k - 1) \div Cardinality(Span(cx, r, W.width)))>>]

\* the iterations of the dy/dx loops that get past both `continue`s: the
\* offsets within the radius whose cell is in bounds, in loop order
Covered(W, cx, cy, r) ==
    SelectSeq(Box(W, cx, cy, r), LAMBDA o : InRadius(o[1], o[2], r))

BrushCell(W, cx, cy, rad, elem, o) ==
    SetAt(W, idx(W, cx + o[1], cy + o[2]), Cell(elem, BrushLife(elem)))

place_brush(W, cx, cy, rad, elem) ==
    IF elem = "Lightning" THEN place_lightning(W, cx, cy)
    ELSE Fold(LAMBDA A, o : BrushCell(A, cx, cy, rad, elem, o), W, Covered(W, cx, cy, rad))

\* lines 401-411, roll the outcome of range_i32(1, 100)
Blast(W, i, roll) ==
    IF roll.v <= 50
    THEN SetAt(WithRng(W, range_i32(roll.rng, 0, 10).rng), i,
               Cell("Fire", 15 + range_i32(roll.rng, 0, 10).v))
    ELSE IF roll.v <= 80 THEN SetAt(WithRng(W, roll.rng), i, Cell("Smoke", 20))
    ELSE SetAt(WithRng(W, roll.rng), i, Cell("Gas", 20))

ExplodeCell(W, cx, cy, r, o) ==
    IF is_indestructible(W.cells[idx(W, cx + o[1], cy + o[2])].elem) THEN W
    ELSE Blast(W, idx(W, cx + o[1], cy + o[2]), range_i32(W.rng, 1, 100))

\* the world W1 that explode(cx, cy, r) made of W, with the call logged
Exploded(W, W1, cx, cy, r) ==
    [W1 EXCEPT !.exlog = Append(W.exlog,
        [cx |-> cx, cy |-> cy, r |-> r, before |-> W.cells, after |-> W1.cells])]

explode(W, cx, cy, r) ==
    Exploded(W, Fold(LAMBDA A, o : ExplodeCell(A, cx, cy, r, o), W, Covered(W, cx, cy, r)),
             cx, cy, r)

(***************************************************************************)
(* Category handlers.  Each takes the world and the coordinates of the     *)
(* visited cell and returns the world after the handler has returned.      *)
(* A neighbour loop that works on a local copy n of the neighbour carries  *)
(* [w |-> world, n |-> copy] through its iteration and writes n back.       *)
(***************************************************************************)
\* self.cells[idx_n] = n
Put(S, in) == SetAt(S.w, in, S.n)

PowderCanEnter(e) == e = "Empty" \/ is_liquid(e)

\* lines 491-507: whether Seaweed lies in the 5x5 block around (x, y)
NearbyWeed(W, x, y) ==
    \E k \in DOMAIN Offs2 : InAnd(W, x + Offs2[k][1], y + Offs2[k][2], {"Seaweed"})

\* lines 484-522: the Sand counter and Seaweed seeding, on the cell at idx0
SandCounter(W, x, y) ==
    IF InAnd(W, x, y - 1, {"Water"})
    THEN IF W.cells[idx(W, x, y)].life + 1 > 220
         THEN SetLife(IF ~NearbyWeed(W, x, y)
                      THEN SetAt(W, idx(W, x, y - 1), Cell("Seaweed", 0))
                      ELSE W,
                      idx(W, x, y), 0)
         ELSE SetLife(W, idx(W, x, y), W.cells[idx(W, x, y)].life + 1)
    ELSE SetLife(W, idx(W, x, y), 0)

\* lines 458-482: Snow melting, written to the cell at idx0
SnowMelt(W, x, y) ==
    IF \E k \in DOMAIN Offs1 :
           InAnd(W, x + Offs1[k][1], y + Offs1[k][2], {"Fire", "Lava"})
    THEN SetAt(W, idx(W, x, y), Cell("Water", 0))
    ELSE W

\* whether a powder may move into (nx, ny)
PowderFree(W, nx, ny) == in_bounds(W, nx, ny) /\ PowderCanEnter(ElemAt(W, nx, ny))

PowderTo(W, idx0, in) == Mark(Swap(W, idx0, in), in)

\* lines 435-452, Wr the world after chance(50) and dir the side it chose
PowderSlide(Wr, x, y, dir) ==
    IF PowderFree(Wr, x + dir, y + 1)
    THEN PowderTo(Wr, idx(Wr, x, y), idx(Wr, x + dir, y + 1))
    ELSE IF PowderFree(Wr, x - dir, y + 1)
    THEN PowderTo(Wr, idx(Wr, x, y), idx(Wr, x - dir, y + 1))
    ELSE Mark(Wr, idx(Wr, x, y))

PowderSlides(W, x, y, c) == PowderSlide(WithRng(W, c.rng), x, y, IF c.b THEN 1 ELSE -1)

\* a powder that tries the diagonals without trying the cell below first
PowderMove_diagonal(W, x, y) == PowderSlides(W, x, y, chance(W.rng, 50))

\* lines 425-456: fall, else slide diagonally, else stay
PowderMove(W, x, y) ==
    IF PowderFree(W, x, y + 1) THEN PowderTo(W, idx(W, x, y), idx(W, x, y + 1))
    ELSE PowderSlides(W, x, y, chance(W.rng, 50))

\* lines 458-522, t the element the handler was called for
PowderAfter(W, x, y, t) ==
    IF t = "Snow" THEN SnowMelt(W, x, y)
    ELSE IF t = "Sand" THEN SandCounter(W, x, y)
    ELSE W

step_powder(W, x, y) == PowderAfter(PowderMove(W, x, y), x, y, ElemAt(W, x, y))

LiquidCanEnter(e) == e = "Empty" \/ is_gas(e)

\* a liquid that also changes places with a liquid of its own density
Sinks_or_equal(t, e) == is_liquid(e) /\ density(t) >= density(e)

Sinks(t, e) == is_liquid(e) /\ density(t) > density(e)

\* lines 561-565, c the outcome of chance(50): [w, moved]
LiquidSink(W, idx0, in, c) ==
    IF c.b THEN [w |-> Mark(Swap(WithRng(W, c.rng), idx0, in), in), moved |-> TRUE]
    ELSE [w |-> WithRng(W, c.rng), moved |-> FALSE]

\* lines 554-566 for the in-bounds side cell at index in
LiquidSideTo(W, idx0, in, t) ==
    IF LiquidCanEnter(W.cells[in].elem)
    THEN [w |-> Mark(Swap(W, idx0, in), in), moved |-> TRUE]
    ELSE IF Sinks(t, W.cells[in].elem) THEN LiquidSink(W, idx0, in, chance(W.rng, 50))
    ELSE [w |-> W, moved |-> FALSE]

\* one iteration of the sideways loop, lines 549-567: [w, moved]
LiquidSide(W, x, y, t, dx) ==
    IF ~in_bounds(W, x + dx, y) THEN [w |-> W, moved |-> FALSE]
    ELSE LiquidSideTo(W, idx(W, x, y), idx(W, x + dx, y), t)

\* the second iteration of the sideways loop runs unless the first one moved
LiquidSecond(s1, x, y, t, dx) == IF s1.moved THEN s1 ELSE LiquidSide(s1.w, x, y, t, dx)

\* lines 570-572: a liquid that did not move is marked where it is
LiquidSettle(s, idx0) == IF s.moved THEN s.w ELSE Mark(s.w, idx0)

\* lines 544-572, c the outcome of chance(50) that picks the first side
LiquidSides(W, x, y, t, c) ==
    LiquidSettle(LiquidSecond(LiquidSide(WithRng(W, c.rng), x, y, t, IF c.b THEN 1 ELSE -1),
                              x, y, t, IF c.b THEN -1 ELSE 1),
                 idx(W, x, y))

\* lines 530-542 for the liquid t at (x, y)
LiquidFall(W, x, y, t) ==
    IF in_bounds(W, x, y + 1)
       /\ (LiquidCanEnter(ElemAt(W, x, y + 1)) \/ Sinks(t, ElemAt(W, x, y + 1)))
    THEN Mark(Swap(W, idx(W, x, y), idx(W, x, y + 1)), idx(W, x, y + 1))
    ELSE LiquidSides(W, x, y, t, chance(W.rng, 50))

\* lines 530-572
LiquidMove(W, x, y) == LiquidFall(W, x, y, ElemAt(W, x, y))

\* c the outcome of chance(50)
Quenched(W, idx0, in, c) ==
    SetAt(SetAt(WithRng(W, c.rng), in, Cell("Stone", 0)), idx0,
          IF c.b THEN Cell("Steam", 20) ELSE Cell("Stone", 0))

\* Water + Lava: the neighbour turns to Stone, the cell at idx0 to Steam or Stone
Quench(W, idx0, in) == Quenched(W, idx0, in, chance(W.rng, 50))

\* the Acid itself is used up, c the outcome of chance(25)
AcidSpent(W, idx0, c) ==
    IF c.b THEN SetAt(WithRng(W, c.rng), idx0, DefaultCell) ELSE WithRng(W, c.rng)

AcidUse(W, idx0) == AcidSpent(W, idx0, chance(W.rng, 25))

\* a dissolvable neighbour is eaten, c the outcome of chance(30)
AcidDissolve(W, idx0, in, c) ==
    AcidUse(WithRng(SetAt(W, in, IF c.b THEN Cell("ToxicGas", 25) ELSE DefaultCell), c.rng),
            idx0)

\* c the outcome of the second chance(30)
AcidSteam(W, in, c) ==
    IF c.b THEN SetAt(WithRng(W, c.rng), in, Cell("Steam", 20)) ELSE WithRng(W, c.rng)

AcidSalted(W, in) == AcidSteam(W, in, chance(W.rng, 30))

\* Acid + Water, c the outcome of the first chance(30)
AcidWater(W, idx0, in, c) ==
    IF ~c.b THEN WithRng(W, c.rng)
    ELSE AcidSalted(SetAt(WithRng(W, c.rng), idx0, Cell("SaltWater", 0)), in)

AcidThen(W, idx0, in, ne) ==
    IF ne # "Water" THEN W ELSE AcidWater(W, idx0, in, chance(W.rng, 30))

AcidReact(W, idx0, in, ne) ==
    AcidThen(IF is_dissolvable(ne) THEN AcidDissolve(W, idx0, in, chance(W.rng, 30)) ELSE W,
             idx0, in, ne)

\* lines 584-676 for the liquid t at idx0 and its neighbour ne at index in
LiquidTouch(W, idx0, in, t, ne) ==
    IF t \in {"Water", "SaltWater"}
    THEN IF ne = "Fire" THEN SetAt(W, in, Cell("Smoke", 15))
         ELSE IF ne = "Lava" THEN Quench(W, idx0, in)
         ELSE W
    ELSE IF t \in {"Oil", "Ethanol"}
    THEN IF ne \in {"Fire", "Lava"} THEN SetAt(W, idx0, Cell("Fire", 25)) ELSE W
    ELSE IF t = "Acid" THEN AcidReact(W, idx0, in, ne)
    ELSE IF t = "Lava"
    THEN IF is_flammable(ne) THEN SetAt(W, in, Cell("Fire", 25))
         ELSE IF ne \in {"Sand", "Snow"} THEN SetAt(W, in, Cell("Glass", 0))
         ELSE IF ne \in {"Water", "SaltWater"} THEN Quench(W, idx0, in)
         ELSE IF ne = "Ice" THEN SetAt(W, in, Cell("Water", 0))
         ELSE W
    ELSE W

\* one iteration of the reaction loop, lines 574-677
LiquidReact(W, x, y, t, o) ==
    IF ~in_bounds(W, x + o[1], y + o[2]) THEN W
    ELSE LiquidTouch(W, idx(W, x, y), idx(W, x + o[1], y + o[2]), t,
                     ElemAt(W, x + o[1], y + o[2]))

\* lines 680-687
LavaCool(W, idx0) ==
    IF W.cells[idx0].life + 1 > 200 THEN SetAt(W, idx0, Cell("Stone", 0))
    ELSE SetLife(W, idx0, W.cells[idx0].life + 1)

\* lines 689-705
Hydrate(W, x, y) ==
    [W EXCEPT !.cells =
        [i \in DOMAIN W.cells |->
            IF W.cells[i].elem \in {"Dirt", "WetDirt"}
               /\ \E k \in DOMAIN Offs1 :
                     /\ in_bounds(W, x + Offs1[k][1], y + Offs1[k][2])
                     /\ i = idx(W, x + Offs1[k][1], y + Offs1[k][2])
            THEN Cell("WetDirt", 300)
            ELSE W.cells[i]]]

\* lines 735-739: the charge of the cell at idx0 decays
ElectrifyDecay(W, idx0) == SetLife(W, idx0, Max(W.cells[idx0].life - 1, 0))

\* lines 722-730: what a charge q does to a neighbour n
Shock(n, q) ==
    IF n.elem \in {"Water", "SaltWater"}
    THEN (IF n.life < q - 1 THEN Cell(n.elem, q - 1) ELSE n)
    ELSE IF n.elem \in {"Human", "Zombie"} THEN Cell("Ash", 0)
    ELSE n

\* whether cell i is one of the eight neighbours of (x, y)
IsNbr8(W, x, y, i) ==
    \E k \in DOMAIN Nbr8 :
        /\ in_bounds(W, x + Nbr8[k][1], y + Nbr8[k][2])
        /\ i = idx(W, x + Nbr8[k][1], y + Nbr8[k][2])

\* lines 709-734: the neighbours of a cell with charge q
Shocked(W, x, y, q) ==
    [W EXCEPT !.cells =
        [i \in DOMAIN W.cells |->
            IF IsNbr8(W, x, y, i) THEN Shock(W.cells[i], q) ELSE W.cells[i]]]

\* lines 707-740: an electrified Water/SaltWater cell at idx0
Electrify(W, x, y) ==
    ElectrifyDecay(Shocked(W, x, y, W.cells[idx(W, x, y)].life), idx(W, x, y))

LiquidAge(W, idx0, t) == IF t = "Lava" THEN LavaCool(W, idx0) ELSE W

LiquidWet(W, x, y, t) == IF t \in {"Water", "SaltWater"} THEN Hydrate(W, x, y) ELSE W

LiquidCharge(W, x, y, t) ==
    IF t \in {"Water", "SaltWater"} /\ W.cells[idx(W, x, y)].life > 0
    THEN Electrify(W, x, y)
    ELSE W

\* lines 574-740, t the element the handler was called for
LiquidAfter(W, x, y, t) ==
    LiquidCharge(LiquidWet(LiquidAge(Fold(LAMBDA A, o : LiquidReact(A, x, y, t, o), W, Nbr8),
                                     idx(W, x, y), t),
                           x, y, t),
                 x, y, t)

step_liquid(W, x, y) == LiquidAfter(LiquidMove(W, x, y), x, y, ElemAt(W, x, y))

\* lines 768-777, c the outcome of chance(50) that picks the row: [w, moved]
GasSideTo(W, idx0, nx, ny, c) ==
    IF InAnd(W, nx, ny, {"Empty"})
    THEN [w |-> Mark(Swap(WithRng(W, c.rng), idx0, idx(W, nx, ny)), idx(W, nx, ny)),
          moved |-> TRUE]
    ELSE [w |-> WithRng(W, c.rng), moved |-> FALSE]

GasRow(y, c) == y - (IF c.b THEN 1 ELSE 0)

\* one iteration of the sideways loop, lines 766-778: [w, moved]
GasSide(W, x, y, dx) ==
    GasSideTo(W, idx(W, x, y), x + dx, GasRow(y, chance(W.rng, 50)), chance(W.rng, 50))

\* the second iteration of the sideways loop runs unless the first one moved
GasSecond(s1, x, y, dx) == IF s1.moved THEN s1 ELSE GasSide(s1.w, x, y, dx)

\* lines 761-779, c the outcome of chance(50) that picks the first side
GasSides(W, x, y, c) ==
    GasSecond(GasSide(WithRng(W, c.rng), x, y, IF c.b THEN 1 ELSE -1),
              x, y, IF c.b THEN -1 ELSE 1)

\* lines 748-779: [w, moved]
GasMove(W, x, y) ==
    IF InAnd(W, x, y - 1, {"Empty"})
    THEN [w |-> Mark(Swap(W, idx(W, x, y), idx(W, x, y - 1)), idx(W, x, y - 1)),
          moved |-> TRUE]
    ELSE GasSides(W, x, y, chance(W.rng, 50))

\* one iteration of the ignition loop, lines 782-803
GasIgnite(W, x, y, t, o) ==
    IF InAnd(W, x + o[1], y + o[2], {"Fire", "Lava"})
    THEN IF t = "Hydrogen" THEN explode(W, x, y, 4)
         ELSE SetAt(W, idx(W, x, y), Cell("Fire", 12))
    ELSE W

\* lines 816-819, c the outcome of chance(35)
ChlorineKills(W, in, c) ==
    IF c.b THEN SetAt(WithRng(W, c.rng), in, Cell("ToxicGas", 25)) ELSE WithRng(W, c.rng)

\* one iteration of the Chlorine loop, lines 807-821
ChlorineCell(W, x, y, o) ==
    IF InAnd(W, x + o[1], y + o[2], {"Plant"})
    THEN ChlorineKills(W, idx(W, x + o[1], y + o[2]), chance(W.rng, 35))
    ELSE W

\* lines 827-850: what an expired gas leaves, c the outcome of its chance
GasLeaves(W, idx0, c, e) ==
    SetAt(WithRng(W, c.rng), idx0, IF c.b THEN Cell(e, 0) ELSE DefaultCell)

\* lines 824-853: the lifetime of the cell at idx0
GasDecay(W, idx0, t, moved) ==
    IF W.cells[idx0].life - 1 <= 0
    THEN CASE t = "Steam" -> GasLeaves(W, idx0, chance(W.rng, 15), "Water")
           [] t = "Smoke" -> GasLeaves(W, idx0, chance(W.rng, 8), "Ash")
           [] OTHER -> SetAt(W, idx0, DefaultCell)
    ELSE IF ~moved THEN Mark(SetLife(W, idx0, W.cells[idx0].life - 1), idx0)
    ELSE SetLife(W, idx0, W.cells[idx0].life - 1)

\* lines 781-822: the reactions of the gas t at (x, y)
GasReact(W, x, y, t) ==
    IF t \in {"Hydrogen", "Gas"}
    THEN Fold(LAMBDA A, o : GasIgnite(A, x, y, t, o), W, Nbr8)
    ELSE IF t = "Chlorine"
    THEN Fold(LAMBDA A, o : ChlorineCell(A, x, y, o), W, Offs1)
    ELSE W

\* m the outcome of GasMove
GasAfterMove(m, x, y, idx0, t) == GasDecay(GasReact(m.w, x, y, t), idx0, t, m.moved)

step_gas(W, x, y) ==
    GasAfterMove(GasMove(W, x, y), x, y, idx(W, x, y), W.cells[idx(W, x, y)].elem)

\* lines 859-866: whether the Fire at (x, y) flickers upward
FireFlickers(W, x, y) ==
    /\ in_bounds(W, x, y - 1)
    /\ LiquidCanEnter(ElemAt(W, x, y - 1))
    /\ chance(W.rng, 50).b

\* lines 862-865, with c the outcome of chance(50)
FireSwap(W, idx0, iu, c) ==
    IF c.b THEN Mark(Swap(WithRng(W, c.rng), idx0, iu), iu) ELSE WithRng(W, c.rng)

FireRise(W, x, y) ==
    IF in_bounds(W, x, y - 1) /\ LiquidCanEnter(ElemAt(W, x, y - 1))
    THEN FireSwap(W, idx(W, x, y), idx(W, x, y - 1), chance(W.rng, 50))
    ELSE W

\* lines 885-886: the local copy n set alight, fl the outcome of range_i32(0, 10)
FireSpark(W, fl) == [w |-> WithRng(W, fl.rng), n |-> Cell("Fire", 15 + fl.v)]

\* lines 881-888, c the outcome of chance(40): [w |-> world, n |-> local copy]
FireLit(W, nx, ny, n, c) ==
    IF ~c.b THEN [w |-> WithRng(W, c.rng), n |-> n]
    ELSE IF n.elem = "Gunpowder"
    THEN [w |-> explode(WithRng(W, c.rng), nx, ny, 5), n |-> n]
    ELSE FireSpark(W, range_i32(c.rng, 0, 10))

\* lines 889-893: a Water neighbour puts the cell at idx0 out
FireWet(S, idx0) ==
    IF S.n.elem \in {"Water", "SaltWater"}
    THEN [S EXCEPT !.w = SetAt(S.w, idx0, Cell("Smoke", 15))]
    ELSE S

\* lines 895-897, c the outcome of chance(5)
FireHeated(S, c) ==
    [w |-> WithRng(S.w, c.rng),
     n |-> IF c.b THEN Cell(S.n.elem, Max(S.n.life, 5)) ELSE S.n]

\* lines 894-900: a conductor is heated, and the local copy is written back
FireHeat(S, in) ==
    Put(IF S.n.elem \in {"Wire", "Metal"} THEN FireHeated(S, chance(S.w.rng, 5)) ELSE S, in)

\* lines 878-900 for the neighbour at index in, n its local copy
FireTouch(W, idx0, nx, ny, in, n) ==
    FireHeat(FireWet(IF is_flammable(n.elem)
                     THEN FireLit(W, nx, ny, n, chance(W.rng, 40))
                     ELSE [w |-> W, n |-> n],
                     idx0),
             in)

\* one iteration of the neighbour loop, lines 873-900
FireNeighbour(W, x, y, o) ==
    IF ~in_bounds(W, x + o[1], y + o[2]) THEN W
    ELSE FireTouch(W, idx(W, x, y), x + o[1], y + o[2], idx(W, x + o[1], y + o[2]),
                   W.cells[idx(W, x + o[1], y + o[2])])

\* a burn-down that stops at life 1 and never converts the cell
BurnDown_forever(W, idx0) == SetLife(W, idx0, Max(W.cells[idx0].life - 1, 1))

\* lines 904-910
BurnDown(W, idx0) ==
    IF W.cells[idx0].life - 1 <= 0 THEN SetAt(W, idx0, Cell("Smoke", 15))
    ELSE SetLife(W, idx0, W.cells[idx0].life - 1)

step_fire(W, x, y) ==
    Mark(BurnDown(Fold(LAMBDA A, o : FireNeighbour(A, x, y, o), FireRise(W, x, y), Nbr8),
                  idx(W, x, y)),
         idx(W, x, y))

\* a Lightning that sets the charge of a conductor or water cell to 12 or 8
LightningCharge_reset(n) ==
    IF n.elem \in {"Wire", "Metal"} THEN Cell(n.elem, 12)
    ELSE IF n.elem \in {"Water", "SaltWater"} THEN Cell(n.elem, 8)
    ELSE n

\* lines 930-935: a conductor or water cell is charged in the local copy
LightningCharge(n) ==
    IF n.elem \in {"Wire", "Metal"} THEN Cell(n.elem, Max(n.life, 12))
    ELSE IF n.elem \in {"Water", "SaltWater"} THEN Cell(n.elem, Max(n.life, 8))
    ELSE n

\* lines 940-941, fl the outcome of range_i32(0, 10)
LightningSpark(W, fl) == [w |-> WithRng(W, fl.rng), n |-> Cell("Fire", 20 + fl.v)]

\* lines 936-943: e is the element of the neighbour, n the charged local copy
LightningLit(W, nx, ny, e, n) ==
    IF ~is_flammable(e) THEN [w |-> W, n |-> n]
    ELSE IF e = "Gunpowder" THEN [w |-> explode(W, nx, ny, 6), n |-> n]
    ELSE LightningSpark(W, range_i32(W.rng, 0, 10))

\* lines 944-946
LightningBlast(S, nx, ny, e) ==
    IF e \in {"Hydrogen", "Gas"} THEN [S EXCEPT !.w = explode(S.w, nx, ny, 4)] ELSE S

\* lines 926-948 for the neighbour n at index in
LightningTouch(W, nx, ny, in, n) ==
    Put(LightningBlast(LightningLit(W, nx, ny, n.elem, LightningCharge(n)), nx, ny, n.elem),
        in)

\* one iteration of the 5x5 loop, lines 918-948
LightningNeighbour(W, x, y, o) ==
    IF ~in_bounds(W, x + o[1], y + o[2]) THEN W
    ELSE LightningTouch(W, x + o[1], y + o[2], idx(W, x + o[1], y + o[2]),
                        W.cells[idx(W, x + o[1], y + o[2])])

\* lines 952-958
Discharge(W, idx0) ==
    IF W.cells[idx0].life - 1 <= 0 THEN SetAt(W, idx0, DefaultCell)
    ELSE SetLife(W, idx0, W.cells[idx0].life - 1)

step_lightning(W, x, y) ==
    Mark(Discharge(Fold(LAMBDA A, o : LightningNeighbour(A, x, y, o), W, Nbr24),
                   idx(W, x, y)),
         idx(W, x, y))

\* try_walk: [w |-> world, ok |-> returned value]
try_walk(W, x, y, tx, ty) ==
    IF ~in_bounds(W, tx, ty) THEN [w |-> W, ok |-> FALSE]
    ELSE IF LiquidCanEnter(ElemAt(W, tx, ty))
    THEN [w |-> Swap(W, idx(W, x, y), idx(W, tx, ty)), ok |-> TRUE]
    ELSE [w |-> W, ok |-> FALSE]

\* lines 965-987 and 1083-1106: a hazard or charged water in the 3x3 block
ActorKilled(W, x, y) ==
    \E k \in DOMAIN Offs1 :
        LET nx == x + Offs1[k][1]
            ny == y + Offs1[k][2]
            n == W.cells[idx(W, nx, ny)]
        IN  /\ in_bounds(W, nx, ny)
            /\ \/ is_hazard(n.elem)
               \/ (n.elem \in {"Water", "SaltWater"} /\ n.life > 0)

\* a scan that settles on the nearest match (the least dx^2 + dy^2) instead
ScanFor_nearest(W, x, y, target) ==
    LET hit == {k \in DOMAIN Offs6 :
                   InAnd(W, x + Offs6[k][1], y + Offs6[k][2], {target})}
        d(k) == Offs6[k][1] * Offs6[k][1] + Offs6[k][2] * Offs6[k][2]
        near == CHOOSE k \in hit : \A j \in hit : d(k) < d(j) \/ (d(k) = d(j) /\ k <= j)
    IN  IF hit = {} THEN [seen |-> FALSE, tx |-> 0]
        ELSE [seen |-> TRUE, tx |-> x + Offs6[near][1]]

\* lines 1008-1028 and 1128-1148: the 13x13 scan, first match in scan order;
\* [seen, tx] with tx the column of the match
ScanFor(W, x, y, target) ==
    LET hit == {k \in DOMAIN Offs6 :
                   InAnd(W, x + Offs6[k][1], y + Offs6[k][2], {target})}
        first == CHOOSE k \in hit : \A j \in hit : k <= j
    IN  IF hit = {} THEN [seen |-> FALSE, tx |-> 0]
        ELSE [seen |-> TRUE, tx |-> x + Offs6[first][1]]

\* lines 1061-1073 and 1181-1193: walk, else hop up, else walk the other way
ActorWalk(W, x, y, dir) ==
    LET idx0 == idx(W, x, y)
        w1 == try_walk(W, x, y, x + dir, y)
        canHop == /\ in_bounds(W, x + dir, y - 1)
                  /\ ElemAt(W, x + dir, y - 1) = "Empty"
                  /\ ElemAt(W, x, y - 1) = "Empty"
        c70 == chance(W.rng, 70)
        Wh == IF canHop THEN WithRng(W, c70.rng) ELSE W
        c50 == chance(Wh.rng, 50)
        alt == IF c50.b THEN 1 ELSE -1
    IN  IF w1.ok THEN w1.w
        ELSE IF canHop /\ c70.b THEN Swap(Wh, idx0, idx(W, x, y - 1))
        ELSE try_walk(WithRng(Wh, c50.rng), x, y, x + alt, y).w

\* one iteration of the attack loop, lines 1035-1051
HumanAttack(W, x, y, o) ==
    LET in == idx(W, x + o[1], y + o[2])
        c35 == chance(W.rng, 35)
        c60 == chance(c35.rng, 60)
        fl == range_i32(c60.rng, 0, 10)
    IN  IF ~InAnd(W, x + o[1], y + o[2], {"Zombie"}) THEN W
        ELSE IF ~c35.b THEN WithRng(W, c35.rng)
        ELSE IF c60.b THEN SetAt(WithRng(W, fl.rng), in, Cell("Fire", 10 + fl.v))
        ELSE SetAt(WithRng(W, c60.rng), in, Cell("Ash", 0))

step_human(W, x, y) ==
    LET idx0 == idx(W, x, y)
        ib == idx(W, x, y + 1)
        W1 == SetLife(W, idx0, wrapping_inc(W.cells[idx0].life))
        z == ScanFor(W1, x, y, "Zombie")
        W2 == Fold(LAMBDA A, o : HumanAttack(A, x, y, o), W1, Nbr8)
        c == chance(W2.rng, 50)
        dir == IF z.seen THEN (IF z.tx < x THEN 1 ELSE -1)
               ELSE (IF c.b THEN 1 ELSE -1)
    IN  IF ActorKilled(W, x, y) THEN Mark(SetAt(W, idx0, Cell("Ash", 0)), idx0)
        ELSE IF in_bounds(W, x, y + 1) /\ LiquidCanEnter(W.cells[ib].elem)
        THEN Mark(Swap(W1, idx0, ib), ib)
        ELSE Mark(ActorWalk(WithRng(W2, c.rng), x, y, dir), idx0)

\* a Zombie that leaves alone the Human it fails to infect
ZombieInfect_spares(W, x, y, o) ==
    LET in == idx(W, x + o[1], y + o[2])
        c70 == chance(W.rng, 70)
    IN  IF ~InAnd(W, x + o[1], y + o[2], {"Human"}) THEN W
        ELSE IF c70.b THEN SetAt(WithRng(W, c70.rng), in, Cell("Zombie", 0))
        ELSE WithRng(W, c70.rng)

\* one iteration of the infection loop, lines 1155-1171
ZombieInfect(W, x, y, o) ==
    LET in == idx(W, x + o[1], y + o[2])
        c70 == chance(W.rng, 70)
    IN  IF ~InAnd(W, x + o[1], y + o[2], {"Human"}) THEN W
        ELSE IF c70.b THEN SetAt(WithRng(W, c70.rng), in, Cell("Zombie", 0))
        ELSE SetAt(WithRng(W, c70.rng), in, Cell("Fire", 10))

step_zombie(W, x, y) ==
    LET idx0 == idx(W, x, y)
        ib == idx(W, x, y + 1)
        W1 == SetLife(W, idx0, wrapping_inc(W.cells[idx0].life))
        h == ScanFor(W1, x, y, "Human")
        W2 == Fold(LAMBDA A, o : ZombieInfect(A, x, y, o), W1, Nbr8)
        c == chance(W2.rng, 50)
        dir == IF h.seen THEN (IF h.tx > x THEN 1 ELSE -1)
               ELSE (IF c.b THEN 1 ELSE -1)
    IN  IF ActorKilled(W, x, y) THEN Mark(SetAt(W, idx0, Cell("Fire", 15)), idx0)
        ELSE IF in_bounds(W, x, y + 1) /\ LiquidCanEnter(W.cells[ib].elem)
        THEN Mark(Swap(W1, idx0, ib), ib)
        ELSE Mark(ActorWalk(WithRng(W2, c.rng), x, y, dir), idx0)

\* a WetDirt that reverts to Dirt one tick late
step_wet_dirt_late(W, x, y) ==
    LET idx0 == idx(W, x, y)
        near_water == \E k \in DOMAIN Offs1 :
            InAnd(W, x + Offs1[k][1], y + Offs1[k][2], {"Water", "SaltWater"})
        l == W.cells[idx0].life - 1
    IN  IF near_water THEN Mark(W, idx0)
        ELSE IF l < 0 THEN Mark(SetAt(W, idx0, Cell("Dirt", 0)), idx0)
        ELSE Mark(SetLife(W, idx0, l), idx0)

step_wet_dirt(W, x, y) ==
    LET idx0 == idx(W, x, y)
        near_water == \E k \in DOMAIN Offs1 :
            InAnd(W, x + Offs1[k][1], y + Offs1[k][2], {"Water", "SaltWater"})
        l == W.cells[idx0].life - 1
    IN  IF near_water THEN Mark(W, idx0)
        ELSE IF l <= 0 THEN Mark(SetAt(W, idx0, Cell("Dirt", 0)), idx0)
        ELSE Mark(SetLife(W, idx0, l), idx0)

\* a scan for heat that looks at the four orthogonal neighbours only
NearHeat_orthogonal(W, x, y) ==
    \E o \in {<<0, -1>>, <<-1, 0>>, <<1, 0>>, <<0, 1>>} :
        InAnd(W, x + o[1], y + o[2], {"Fire", "Lava"})

\* lines 1235-1252 and 1299-1316: a Fire or Lava neighbour sets the cell alight
NearHeat(W, x, y) ==
    \E k \in DOMAIN Nbr8 :
        InAnd(W, x + Nbr8[k][1], y + Nbr8[k][2], {"Fire", "Lava"})

step_plant_like(W, x, y) ==
    LET idx0 == idx(W, x, y)
        t == W.cells[idx0].elem
        c == chance(W.rng, 2)
        Wr == WithRng(W, c.rng)
        iu == idx(W, x, y - 1)
    IN  IF NearHeat(W, x, y) THEN Mark(SetAt(W, idx0, Cell("Fire", 20)), idx0)
        ELSE IF t = "Plant"
        THEN IF InAnd(W, x, y + 1, {"WetDirt"})
             THEN IF c.b /\ InAnd(W, x, y - 1, {"Empty"})
                  THEN Mark(SetAt(Wr, iu, Cell("Plant", 0)), idx0)
                  ELSE Mark(Wr, idx0)
             ELSE Mark(W, idx0)
        ELSE IF InAnd(W, x, y - 1, {"Water", "SaltWater"})
             THEN IF c.b THEN Mark(SetAt(Wr, iu, Cell("Seaweed", 0)), idx0)
                  ELSE Mark(Wr, idx0)
             ELSE Mark(W, idx0)

BurnLife(t) == IF t = "Coal" THEN 35 ELSE 25

step_burnable_solid(W, x, y) ==
    LET idx0 == idx(W, x, y)
        t == W.cells[idx0].elem
    IN  IF NearHeat(W, x, y) THEN Mark(SetAt(W, idx0, Cell("Fire", BurnLife(t))), idx0)
        ELSE Mark(W, idx0)

\* one row of the loop of lines 1323-1339: the break leaves the inner loop only
GunpowderRow(W, x, y, dy) ==
    IF \E dx \in {-1, 0, 1} :
           /\ ~(dx = 0 /\ dy = 0)
           /\ InAnd(W, x + dx, y + dy, {"Fire", "Lava"})
    THEN explode(W, x, y, 5)
    ELSE W

step_gunpowder(W, x, y) ==
    Mark(Fold(LAMBDA A, dy : GunpowderRow(A, x, y, dy), W, <<-1, 0, 1>>),
         idx(W, x, y))

\* a conductor that passes its whole charge on
ConductCharge_whole(n, q) ==
    IF n.elem \in {"Wire", "Metal", "Water", "SaltWater"} /\ n.life < q
    THEN Cell(n.elem, q) ELSE n

\* lines 1361-1370: charge spreads to a conductor or water cell in the local copy
ConductCharge(n, q) ==
    IF n.elem \in {"Wire", "Metal", "Water", "SaltWater"} /\ n.life < q - 1
    THEN Cell(n.elem, q - 1) ELSE n

\* lines 1375-1376, fl the outcome of range_i32(0, 10)
ConductSpark(W, fl) == [w |-> WithRng(W, fl.rng), n |-> Cell("Fire", 15 + fl.v)]

\* lines 1371-1378, c the outcome of chance(15)
ConductLit(W, nx, ny, n, c) ==
    IF ~c.b THEN [w |-> WithRng(W, c.rng), n |-> n]
    ELSE IF n.elem = "Gunpowder"
    THEN [w |-> explode(WithRng(W, c.rng), nx, ny, 5), n |-> n]
    ELSE ConductSpark(W, range_i32(c.rng, 0, 10))

\* lines 1380-1382, c the outcome of chance(35)
ConductBlasted(S, nx, ny, c) ==
    IF c.b THEN [S EXCEPT !.w = explode(WithRng(S.w, c.rng), nx, ny, 4)]
    ELSE [S EXCEPT !.w = WithRng(S.w, c.rng)]

\* lines 1379-1383
ConductBlast(S, nx, ny) ==
    IF S.n.elem \in {"Hydrogen", "Gas"}
    THEN ConductBlasted(S, nx, ny, chance(S.w.rng, 35))
    ELSE S

\* lines 1358-1385 for the neighbour at index in, n its charged local copy
ConductTouch(W, nx, ny, in, n) ==
    Put(ConductBlast(IF is_flammable(n.elem)
                     THEN ConductLit(W, nx, ny, n, chance(W.rng, 15))
                     ELSE [w |-> W, n |-> n],
                     nx, ny),
        in)

\* one iteration of the conduction loop, lines 1350-1385
ConductNeighbour(W, x, y, q, o) ==
    IF ~in_bounds(W, x + o[1], y + o[2]) THEN W
    ELSE ConductTouch(W, x + o[1], y + o[2], idx(W, x + o[1], y + o[2]),
                      ConductCharge(W.cells[idx(W, x + o[1], y + o[2])], q))

\* a conductor that keeps its charge
ConductDecay_kept(W, idx0) == Mark(W, idx0)

\* lines 1388-1392: the charge of the cell at idx0 decays
ConductDecay(W, idx0) == Mark(SetLife(W, idx0, Max(W.cells[idx0].life - 1, 0)), idx0)

\* q is the charge of the cell when the handler starts
Conduct(W, x, y, q) ==
    IF q > 0
    THEN ConductDecay(Fold(LAMBDA A, o : ConductNeighbour(A, x, y, q, o), W, Nbr8),
                      idx(W, x, y))
    ELSE Mark(W, idx(W, x, y))

step_conductor(W, x, y) == Conduct(W, x, y, W.cells[idx(W, x, y)].life)

\* lines 1400-1419: [rng, melt] after the scan over the 3x3 block from entry k
RECURSIVE IceScan(_, _, _, _, _)
IceScan(W, x, y, s, k) ==
    IF k > Len(Offs1) THEN [rng |-> s, melt |-> FALSE]
    ELSE IF InAnd(W, x + Offs1[k][1], y + Offs1[k][2], {"Fire", "Lava", "Steam"})
    THEN IF chance(s, 25).b THEN [rng |-> chance(s, 25).rng, melt |-> TRUE]
         ELSE IceScan(W, x, y, chance(s, 25).rng, k + 1)
    ELSE IceScan(W, x, y, s, k + 1)

\* an Ice cell that thaws with a 25 % chance whatever lies around it
step_ice_thaws(W, x, y) ==
    IF chance(W.rng, 25).b
    THEN Mark(SetAt(WithRng(W, chance(W.rng, 25).rng), idx(W, x, y), Cell("Water", 0)),
              idx(W, x, y))
    ELSE Mark(WithRng(W, chance(W.rng, 25).rng), idx(W, x, y))

step_ice(W, x, y) ==
    LET idx0 == idx(W, x, y)
        r == IceScan(W, x, y, W.rng, 1)
    IN  IF r.melt THEN Mark(SetAt(WithRng(W, r.rng), idx0, Cell("Water", 0)), idx0)
        ELSE Mark(WithRng(W, r.rng), idx0)

(***************************************************************************)
(* World::step: the scan and the dispatch                                  *)
(***************************************************************************)
\* a scan that takes the rows from the top
ScanY_top_down(W, k) == k \div W.width

\* the coordinates of loop iteration k (0-based): rows bottom-up, columns left to right
ScanX(W, k) == k % W.width

ScanY(W, k) == (W.height - 1) - (k \div W.width)

\* the handler the dispatch chain of lines 245-330 selects for an element
HandlerOf(elem) ==
    IF elem = "Empty" \/ elem = "Wall" THEN "skip"
    ELSE IF is_sand_like(elem) THEN "powder"
    ELSE IF is_liquid(elem) THEN "liquid"
    ELSE IF is_gas(elem) THEN "gas"
    ELSE IF elem = "Fire" THEN "fire"
    ELSE IF elem = "Lightning" THEN "lightning"
    ELSE IF elem = "Human" THEN "human"
    ELSE IF elem = "Zombie" THEN "zombie"
    ELSE IF elem = "WetDirt" THEN "wet_dirt"
    ELSE IF elem = "Plant" \/ elem = "Seaweed" THEN "plant_like"
    ELSE IF elem = "Wood" \/ elem = "Coal" THEN "burnable_solid"
    ELSE IF elem = "Gunpowder" THEN "gunpowder"
    ELSE IF elem = "Wire" \/ elem = "Metal" THEN "conductor"
    ELSE IF elem = "Ice" THEN "ice"
    ELSE "static"

\* a dispatch that does not consult the mask
DispatchedUnmasked(W, x, y) == HandlerOf(ElemAt(W, x, y))

\* the handler run by the loop body at (x, y): "masked" when the mask entry is set
Dispatched(W, x, y) ==
    IF W.updated[idx(W, x, y)] THEN "masked" ELSE HandlerOf(ElemAt(W, x, y))

\* the call of the handler h at (x, y)
RunHandler(W, x, y, h) ==
    CASE h = "masked" -> W
      [] h \in {"skip", "static"} -> Mark(W, idx(W, x, y))
      [] h = "powder" -> step_powder(W, x, y)
      [] h = "liquid" -> step_liquid(W, x, y)
      [] h = "gas" -> step_gas(W, x, y)
      [] h = "fire" -> step_fire(W, x, y)
      [] h = "lightning" -> step_lightning(W, x, y)
      [] h = "human" -> step_human(W, x, y)
      [] h = "zombie" -> step_zombie(W, x, y)
      [] h = "wet_dirt" -> step_wet_dirt(W, x, y)
      [] h = "plant_like" -> step_plant_like(W, x, y)
      [] h = "burnable_solid" -> step_burnable_solid(W, x, y)
      [] h = "gunpowder" -> step_gunpowder(W, x, y)
      [] h = "conductor" -> step_conductor(W, x, y)
      [] h = "ice" -> step_ice(W, x, y)

\* one loop iteration of World::step at (x, y), lines 240-330
VisitCell(W, x, y) == RunHandler(W, x, y, Dispatched(W, x, y))

(***************************************************************************)
(* The state machine                                                       *)
(***************************************************************************)
\* the world held by the state variables
Wld ==
    [width |-> width, height |-> height, cells |-> cells, rng |-> rng,
     updated |-> updated, exlog |-> <<>>]

Snapshot == [width |-> width, height |-> height, cells |-> cells, rng |-> rng]

Zeros == [i \in DOMAIN cells |-> 0]

\* whether the buffer of W holds width * height cells: it does unless the
\* product of the dimensions overflowed when the buffer was allocated
Sound(W) == ~Overflows(W.width, W.height)

\* World::new(w, h, seed) in a build with overflow checks (chk) or without, in
\* the hands of a host that will make the calls of script.  When the product
\* of the dimensions panics there is no world.
New(w, h, seed, script, chk) ==
    /\ checked = chk
    /\ todo = script
    /\ IF chk /\ Overflows(Max(w, 0), Max(h, 0))
       THEN pc = "aborted" /\ width = 0 /\ height = 0 /\ cells = EmptyBuf(0, 0)
       ELSE /\ pc = "idle"
            /\ width = Max(w, 0)
            /\ height = Max(h, 0)
            /\ cells = EmptyBuf(Max(w, 0), Max(h, 0))
    /\ rng = RngNew(seed)
    /\ updated = <<>>
    /\ pos = 0
    /\ ticks = 0
    /\ nops = 0
    /\ ret = 1
    /\ last = [op |-> "new", w |-> w, h |-> h, seed |-> seed]
    /\ pre = [width |-> 0, height |-> 0, cells |-> <<>>, rng |-> seed]
    /\ tick0 = <<>>
    /\ grid0 = <<>>
    /\ exlog = <<>>
    /\ writes = <<>>
    /\ visits = <<>>
    /\ track = -1
    /\ drawn = <<[op |-> "new", seed |-> seed]>>

\* what a host call leaves alone
HostFrame ==
    /\ pre' = Snapshot
    /\ nops' = nops + 1
    /\ UNCHANGED <<updated, pc, pos, ticks, tick0, grid0, exlog, writes, visits, track,
                   checked, drawn>>

\* the call `call` panics: the process ends
Panicked(call) ==
    /\ pc' = "aborted"
    /\ last' = [op |-> "panic", call |-> call]
    /\ pre' = Snapshot
    /\ UNCHANGED <<rng, updated, pos, ticks, nops, ret, tick0, grid0, exlog, writes,
                   visits, track, checked, drawn>>

\* the world W1 is stored
Placed(W1) ==
    /\ cells' = W1.cells
    /\ rng' = W1.rng
    /\ width' = W1.width
    /\ height' = W1.height

Brush(cx, cy, rad, elem) ==
    [op |-> "place_brush", cx |-> cx, cy |-> cy, rad |-> rad, elem |-> elem]

SetCellCall(x, y, c) == [op |-> "set_cell", x |-> x, y |-> y, cell |-> c]

\* whether place_brush panics: on the overflow of rad * rad in a checked build,
\* or on the index of an in-bounds cell that the buffer does not hold
BrushPanics(W, cx, cy, rad, elem, chk) ==
    IF elem = "Lightning" THEN in_bounds(W, cx, cy) /\ ~Sound(W)
    ELSE \/ chk /\ Overflows(rad, rad)
         \/ Covered(W, cx, cy, rad) # <<>> /\ ~Sound(W)

\* World::place_brush(cx, cy, rad, elem)
PlaceBrush(cx, cy, rad, elem) ==
    /\ pc = "idle"
    /\ IF BrushPanics(Wld, cx, cy, rad, elem, checked)
       THEN Panicked(Brush(cx, cy, rad, elem)) /\ UNCHANGED <<width, height, cells>>
       ELSE /\ Placed(place_brush(Wld, cx, cy, rad, elem))
            /\ last' = Brush(cx, cy, rad, elem)
            /\ ret' = ret
            /\ HostFrame

\* World::get_cell(x, y)
get_cell(W, x, y) ==
    IF ~in_bounds(W, x, y) THEN DefaultCell
    ELSE IF idx(W, x, y) \in DOMAIN W.cells THEN W.cells[idx(W, x, y)]
    ELSE Cell("PANIC", 0)

\* powder_world_set_cell(handle, x, y, cell) through World::get_cell_mut
SetCell(x, y, c) ==
    /\ pc = "idle"
    /\ IF in_bounds(Wld, x, y) /\ idx(Wld, x, y) \notin DOMAIN cells
       THEN Panicked(SetCellCall(x, y, c)) /\ UNCHANGED <<width, height, cells>>
       ELSE /\ IF in_bounds(Wld, x, y)
               THEN /\ cells' = [cells EXCEPT ![idx(Wld, x, y)] = c]
                    /\ ret' = 1
               ELSE /\ cells' = cells
                    /\ ret' = 0
            /\ last' = SetCellCall(x, y, c)
            /\ UNCHANGED <<width, height, rng>>
            /\ HostFrame

\* a clear that spares the Wall cells
Clear_but_walls ==
    /\ pc = "idle"
    /\ cells' = [i \in DOMAIN cells |->
                    IF cells[i].elem = "Wall" THEN cells[i] ELSE DefaultCell]
    /\ last' = [op |-> "clear"]
    /\ UNCHANGED <<width, height, rng, ret>>
    /\ HostFrame

\* World::clear()
Clear ==
    /\ pc = "idle"
    /\ cells' = [i \in DOMAIN cells |-> DefaultCell]
    /\ last' = [op |-> "clear"]
    /\ UNCHANGED <<width, height, rng, ret>>
    /\ HostFrame

\* World::resize(w, h)
Resize(w, h) ==
    /\ pc = "idle"
    /\ width' = Max(w, 0)
    /\ height' = Max(h, 0)
    /\ IF checked /\ Overflows(Max(w, 0), Max(h, 0))
       THEN Panicked([op |-> "resize", w |-> w, h |-> h]) /\ cells' = cells
       ELSE /\ cells' = EmptyBuf(Max(w, 0), Max(h, 0))
            /\ last' = [op |-> "resize", w |-> w, h |-> h]
            /\ UNCHANGED <<rng, ret>>
            /\ HostFrame

\* World::step gets to the scan: the mask is allocated (lines 233-235)
StepStarts ==
    /\ last' = [op |-> "step"]
    /\ pre' = Snapshot
    /\ tick0' = cells
    /\ grid0' = IF ticks = 0 THEN cells ELSE grid0
    /\ exlog' = <<>>
    /\ writes' = Zeros
    /\ visits' = Zeros
    /\ track' = IF ticks = 0 /\ Cardinality({i \in DOMAIN cells : cells[i].elem = "Fire"}) = 1
                THEN CHOOSE i \in DOMAIN cells : cells[i].elem = "Fire"
                ELSE track
    /\ pc' = "step"
    /\ pos' = 0
    /\ updated' = [i \in 0 .. (width * height - 1) |-> FALSE]
    /\ UNCHANGED <<width, height, cells, rng, nops, ret, ticks, checked, drawn>>

\* World::step returns at once (lines 229-231)
StepReturns ==
    /\ last' = [op |-> "step"]
    /\ pre' = Snapshot
    /\ tick0' = cells
    /\ grid0' = IF ticks = 0 THEN cells ELSE grid0
    /\ ticks' = ticks + 1
    /\ UNCHANGED <<width, height, cells, rng, nops, ret, checked, drawn, pc, pos, updated,
                   exlog, writes, visits, track>>

\* World::step is called.  In a world whose dimensions' product overflowed,
\* w * h panics (line 235) in a checked build, and otherwise the mask has not
\* the entry of the first cell of the scan (line 241).
StepBegin ==
    /\ pc = "idle"
    /\ IF width <= 0 \/ height <= 0 THEN StepReturns
       ELSE IF ~Sound(Wld) THEN Panicked([op |-> "step"]) /\ UNCHANGED <<width, height, cells>>
       ELSE StepStarts
    /\ todo' = todo

\* the state after the loop body ran at (x, y), cell i, with h dispatched and W1 the
\* world it left
Visited(W1, x, y, i, h) ==
    /\ cells' = W1.cells
    /\ rng' = W1.rng
    /\ updated' = W1.updated
    /\ exlog' = W1.exlog
    /\ last' = [op |-> "visit", x |-> x, y |-> y, i |-> i, h |-> h,
                m |-> updated[i], tracked |-> (i = track)]
    /\ writes' = [j \in DOMAIN cells |->
                    IF h \notin {"masked", "skip", "static"} /\ W1.cells[j] # cells[j]
                    THEN writes[j] + 1
                    ELSE writes[j]]
    /\ visits' = [visits EXCEPT ![i] =
                    IF h \notin {"masked", "skip", "static"} THEN @ + 1 ELSE @]
    /\ track' = IF i = track /\ h = "fire"
                THEN IF FireFlickers(Wld, x, y) THEN idx(Wld, x, y - 1)
                     ELSE IF W1.cells[i].elem = "Fire" THEN track ELSE -2
                ELSE track

VisitAt(x, y) ==
    Visited(VisitCell(Wld, x, y), x, y, idx(Wld, x, y), Dispatched(Wld, x, y))

\* whether the handler h panics at (x, y) in a build with overflow checks
\* (chk): the animation counter of a Human or Zombie that is not killed is
\* incremented (lines 995 and 1115), and it is the one counter that no
\* handler resets
HandlerPanics(W, x, y, h, chk) ==
    /\ chk
    /\ h \in {"human", "zombie"}
    /\ ~ActorKilled(W, x, y)
    /\ W.cells[idx(W, x, y)].life = I32Max

\* one iteration of the loop of lines 238-331
Visit ==
    /\ pc = "step"
    /\ pos < width * height
    /\ IF HandlerPanics(Wld, ScanX(Wld, pos), ScanY(Wld, pos),
                        Dispatched(Wld, ScanX(Wld, pos), ScanY(Wld, pos)), checked)
       THEN Panicked([op |-> "step"]) /\ UNCHANGED <<width, height, cells, todo>>
       ELSE /\ VisitAt(ScanX(Wld, pos), ScanY(Wld, pos))
            /\ pre' = Snapshot
            /\ pos' = pos + 1
            /\ UNCHANGED <<width, height, pc, ticks, nops, todo, ret, tick0, grid0,
                           checked, drawn>>

\* World::step returns: the mask is dropped
StepEnd ==
    /\ pc = "step"
    /\ pos = width * height
    /\ pc' = "idle"
    /\ pos' = 0
    /\ updated' = <<>>
    /\ ticks' = ticks + 1
    /\ last' = [op |-> "step_end"]
    /\ UNCHANGED <<width, height, cells, rng, nops, todo, ret, pre, tick0, grid0,
                   exlog, writes, visits, track, checked, drawn>>

\* a host call given as a record
Call(op) ==
    CASE op.op = "place_brush" -> PlaceBrush(op.cx, op.cy, op.rad, op.elem)
      [] op.op = "set_cell" -> SetCell(op.x, op.y, op.cell)
      [] op.op = "clear" -> Clear
      [] op.op = "resize" -> Resize(op.w, op.h)

\* the host makes the next call of its script
Scripted == todo # <<>> /\ Call(Head(todo)) /\ todo' = Tail(todo)

\* a layout is a sequence of <<x, y, element>>; the script places each with a
\* brush of radius 0
ScriptOf(layout) ==
    [k \in DOMAIN layout |-> Brush(layout[k][1], layout[k][2], 0, layout[k][3])]

\* the coordinates of a w x h grid in row-major order, and those of a set S among them
Coords(w, h) == [k \in 1 .. w * h |-> <<(k - 1) % w, (k - 1) \div w>>]

CoordSeq(S, w, h) == SelectSeq(Coords(w, h), LAMBDA p : p \in S)

\* a scripted host: it authors first, then steps
NextScene(maxTicks) ==
    \/ Scripted
    \/ (todo = <<>> /\ ticks < maxTicks /\ StepBegin)
    \/ Visit
    \/ StepEnd

(***************************************************************************)
(* Bounds and seeds                                                        *)
(***************************************************************************)
Seeds == {ZeroSeed, <<1, 0, 0, 0>>, <<2, 0, 0, 0>>, <<42, 0, 0, 0>>, <<5, 0, 1, 0>>}

FewSeeds == {<<1, 0, 0, 0>>, <<7, 0, 0, 0>>}

\* Spec: the grid, the largest brush radius, the ticks run, and a dimension
\* and radius whose square does not fit in an i32
GridW == 2
GridH == 3
MaxRad == 1
MaxTicks == 1
Huge == 46341

\* SpecFall: the grid and the ticks run
FallW == 3
FallH == 3
FallTicks == 3

\* SpecColumn: the height of the column and the ticks run
ColH == 4
ColTicks == 8

\* SpecFire: the grid and the ticks run
FireW == 3
FireH == 3
FireTicks == 2

\* SpecBurn: the grid and the ticks run
BurnW == 2
BurnH == 3
BurnTicks == 24

\* SpecBoom: the grid and the ticks run
BoomW == 5
BoomH == 5
BoomTicks == 2

(***************************************************************************)
(* Spec: a host that builds one of a few small worlds, makes one more call *)
(* of the authoring interface with any arguments, and steps                *)
(***************************************************************************)
Bases ==
    {<<>>,
     <<Brush(0, 1, 0, "Smoke"), Brush(0, 2, 0, "Water")>>,
     <<Brush(0, 2, 0, "Stone"), Brush(1, 1, 0, "Sand"), Brush(1, 0, 0, "Wall")>>,
     <<SetCellCall(0, 1, Cell("Water", 9)), Brush(1, 2, 0, "Wire"), Brush(1, 0, 0, "Hydrogen")>>,
     <<Brush(0, 1, 0, "SaltWater"), Brush(1, 1, 1, "Wall"), Brush(1, 2, 0, "Fire")>>}

ProbeElems == {"Sand", "Fire", "Steam", "Wall", "Lightning"}

HugeProbes ==
    {Brush(cx, cy, Huge, e) :
        cx \in -1 .. GridW, cy \in -1 .. GridH, e \in ProbeElems \ {"Lightning"}}

Probes ==
    {Brush(cx, cy, rad, e) :
        cx \in -1 .. GridW, cy \in -1 .. GridH, rad \in 0 .. MaxRad, e \in ProbeElems}
    \cup {SetCellCall(x, y, c) :
            x \in -1 .. GridW, y \in -1 .. GridH,
            c \in {Cell("Metal", 3), Cell("Empty", 0)}}
    \cup {[op |-> "clear"]}
    \cup {[op |-> "resize", w |-> d[1], h |-> d[2]] :
            d \in {<<0, 0>>, <<-1, GridH>>, <<GridW, 1>>}}

\* any call on a world of ordinary size, and the calls with small arguments on
\* a world with huge dimensions, in both builds
Init ==
    \E base \in Bases, chk \in BOOLEAN :
        \/ \E d \in {<<0, 0>>, <<GridW, -2>>, <<GridW, GridH>>}, probe \in Probes \cup HugeProbes :
              New(d[1], d[2], <<1, 0, 0, 0>>, base \o <<probe>>, chk)
        \/ \E probe \in Probes :
              New(Huge, Huge, <<1, 0, 0, 0>>, base \o <<probe>>, chk)

Next == NextScene(MaxTicks)

Spec == Init /\ [][Next]_vars

(***************************************************************************)
(* SpecFall: one powder or liquid cell in an otherwise empty grid          *)
(***************************************************************************)
Fallers == {e \in Element : is_sand_like(e) \/ is_liquid(e)}

\* the life the cell is given (set_cell places any life)
FallLives == {0, 7}

InitFall ==
    \E e \in Fallers, l \in FallLives, x \in 0 .. FallW - 1, y \in 0 .. FallH - 1,
       seed \in FewSeeds :
        New(FallW, FallH, seed, <<SetCellCall(x, y, Cell(e, l))>>, FALSE)

NextFall == NextScene(FallTicks)

SpecFall == InitFall /\ [][NextFall]_vars

(***************************************************************************)
(* SpecColumn: Mercury above Water above Oil in a closed one-cell column,  *)
(* closed by the grid edges (width 1) or by Wall on both sides (width 3)   *)
(***************************************************************************)
ColumnLayout(w, y0) ==
    LET x == IF w = 1 THEN 0 ELSE 1
        walls == IF w = 1 THEN <<>>
                 ELSE [k \in 1 .. 2 * ColH |->
                         <<IF k <= ColH THEN 0 ELSE 2, (k - 1) % ColH, "Wall">>]
    IN  walls \o <<<<x, y0, "Mercury">>, <<x, y0 + 1, "Water">>, <<x, y0 + 2, "Oil">>>>

InitColumn ==
    \E w \in {1, 3}, y0 \in 0 .. ColH - 3, seed \in Seeds :
        New(w, ColH, seed, ScriptOf(ColumnLayout(w, y0)), FALSE)

NextColumn == NextScene(ColTicks)

SpecColumn == InitColumn /\ [][NextColumn]_vars

(***************************************************************************)
(* SpecFire and SpecBurn: one brush-placed Fire cell in the 8-neighbourhood *)
(* of a contiguous horizontal or vertical line of Wood                     *)
(***************************************************************************)
WoodLines(w, h) ==
    {{<<x, r>> : x \in a .. b} : r \in 0 .. h - 1, a \in 0 .. w - 1, b \in 0 .. w - 1}
    \cup {{<<c, y>> : y \in a .. b} : c \in 0 .. w - 1, a \in 0 .. h - 1, b \in 0 .. h - 1}

Adjacent(p, q) == p # q /\ p[1] - q[1] \in -1 .. 1 /\ p[2] - q[2] \in -1 .. 1

FireSpots(L, w, h) ==
    {f \in {Coords(w, h)[k] : k \in 1 .. w * h} : f \notin L /\ \E p \in L : Adjacent(f, p)}

WoodAndFire(L, f, w, h) ==
    [k \in 1 .. Cardinality(L) |->
        <<CoordSeq(L, w, h)[k][1], CoordSeq(L, w, h)[k][2], "Wood">>]
    \o <<<<f[1], f[2], "Fire">>>>

FireLayouts(w, h) ==
    UNION {{WoodAndFire(L, f, w, h) : f \in FireSpots(L, w, h)} :
             L \in WoodLines(w, h) \ {{}}}

InitFire ==
    \E lay \in FireLayouts(FireW, FireH), seed \in Seeds :
        New(FireW, FireH, seed, ScriptOf(lay), FALSE)

NextFire == NextScene(FireTicks)

SpecFire == InitFire /\ [][NextFire]_vars

InitBurn ==
    \E lay \in FireLayouts(BurnW, BurnH), seed \in Seeds :
        New(BurnW, BurnH, seed, ScriptOf(lay), FALSE)

NextBurn == NextScene(BurnTicks)

SpecBurn == InitBurn /\ [][NextBurn]_vars

(***************************************************************************)
(* SpecBoom: worlds in which a handler calls explode                       *)
(***************************************************************************)
BoomLayouts ==
    {<<<<0, 0, "Hydrogen">>, <<1, 0, "Fire">>, <<2, 2, "Ice">>, <<0, 3, "Wall">>,
       <<3, 0, "Water">>, <<4, 4, "Sand">>, <<4, 1, "Stone">>>>,
     <<<<4, 4, "Gunpowder">>, <<3, 4, "Fire">>, <<4, 3, "Wire">>, <<2, 4, "Glass">>,
       <<1, 4, "Metal">>, <<0, 0, "Stone">>, <<0, 4, "Oil">>>>,
     <<<<0, 4, "Gunpowder">>, <<0, 0, "Lightning">>, <<1, 4, "Stone">>>>,
     <<<<2, 0, "Fire">>, <<2, 1, "Hydrogen">>, <<0, 0, "Metal">>, <<2, 4, "Dirt">>>>,
     <<<<0, 4, "Gunpowder">>, <<1, 4, "Fire">>, <<2, 4, "Wall">>>>,
     <<<<1, 3, "Gunpowder">>, <<2, 3, "Lava">>, <<2, 4, "Stone">>>>}

InitBoom ==
    \E lay \in BoomLayouts, seed \in Seeds :
        New(BoomW, BoomH, seed, ScriptOf(lay), FALSE)

NextBoom == NextScene(BoomTicks)

SpecBoom == InitBoom /\ [][NextBoom]_vars

(***************************************************************************)
(* SpecMove: one cell that moves, alone in the grid, in both builds.  A    *)
(* Human or Zombie is placed fresh or old: a fresh one standing alone      *)
(* (a 1x1 world suffices) gains 1 per step, so every counter value up to   *)
(* i32::MAX is reached by stepping, and the host is given the old one      *)
(* through set_cell instead of 2^31 - 1 steps.                             *)
(***************************************************************************)
MoveW == 4
MoveH == 2
MoveTicks == 2

Actors == {"Human", "Zombie"}

Movers == {"Sand", "Water", "Fire"}

InitMove ==
    \E chk \in BOOLEAN, seed \in Seeds, x \in 0 .. MoveW - 1, y \in 0 .. MoveH - 1 :
        \/ \E e \in Actors \cup Movers :
              New(MoveW, MoveH, seed, <<Brush(x, y, 0, e)>>, chk)
        \/ \E e \in Actors :
              New(MoveW, MoveH, seed, <<SetCellCall(x, y, Cell(e, I32Max))>>, chk)

NextMove == NextScene(MoveTicks)

SpecMove == InitMove /\ [][NextMove]_vars

(***************************************************************************)
(* SpecRng: the generator of a world alone.  Rng::new seeds it, and a      *)
(* driver calls next_u32, range_i32 and chance on it directly.             *)
(***************************************************************************)
\* the number of calls made on the generator
MaxDraws == 4

RngSeeds ==
    {ZeroSeed, DefaultSeed, <<1, 0, 0, 0>>, <<42, 0, 0, 0>>, <<5, 0, 1, 0>>,
     <<65535, 65535, 65535, 65535>>}

\* <<min, max>> given to range_i32: the two the engine uses and an empty range
RangeArgs == {<<1, 100>>, <<0, 10>>, <<3, 1>>}

\* pct given to chance (a u32)
Pcts == {0, 31, 50, 100, 250}

\* the call `call` on the generator returned out and left the state s
Drew(call, out, s) ==
    /\ pc = "idle"
    /\ Len(drawn) <= MaxDraws
    /\ rng' = s
    /\ drawn' = Append(drawn, [call |-> call, out |-> out])
    /\ last' = call
    /\ pre' = Snapshot
    /\ nops' = nops + 1
    /\ UNCHANGED <<width, height, cells, updated, pc, pos, ticks, todo, ret, tick0,
                   grid0, exlog, writes, visits, track, checked>>

DrawNext == Drew([op |-> "next_u32"], next_u32(rng), next_state(rng))

DrawRange ==
    \E a \in RangeArgs :
        Drew([op |-> "range_i32", min |-> a[1], max |-> a[2]],
             range_i32(rng, a[1], a[2]).v, range_i32(rng, a[1], a[2]).rng)

DrawChance ==
    \E pct \in Pcts :
        Drew([op |-> "chance", pct |-> pct], chance(rng, pct).b, chance(rng, pct).rng)

InitRng == \E seed \in RngSeeds : New(0, 0, seed, <<>>, FALSE)

NextRng == DrawNext \/ DrawRange \/ DrawChance

SpecRng == InitRng /\ [][NextRng]_vars

(***************************************************************************)
(* SpecGas: one gas cell alone in the grid, placed by the brush (life 25)  *)
(* or by set_cell with a short life                                        *)
(***************************************************************************)
GasW == 3
GasH == 3
GasTicks == 3

Gases == {e \in Element : is_gas(e)}

GasLives == {1, 2, 3}

InitGas ==
    \E e \in Gases, x \in 0 .. GasW - 1, y \in 0 .. GasH - 1, seed \in Seeds :
        \/ New(GasW, GasH, seed, <<Brush(x, y, 0, e)>>, FALSE)
        \/ \E l \in GasLives : New(GasW, GasH, seed, <<SetCellCall(x, y, Cell(e, l))>>, FALSE)

NextGas == NextScene(GasTicks)

SpecGas == InitGas /\ [][NextGas]_vars

(***************************************************************************)
(* SpecSnow: one Snow cell with one Fire or Lava cell beside it, anywhere  *)
(* in the grid                                                             *)
(***************************************************************************)
SnowW == 3
SnowH == 3
SnowTicks == 2

SnowLayouts ==
    {<<<<p[1], p[2], "Snow">>, <<q[1], q[2], e>>>> :
        p \in {Coords(SnowW, SnowH)[k] : k \in 1 .. SnowW * SnowH},
        q \in {Coords(SnowW, SnowH)[k] : k \in 1 .. SnowW * SnowH},
        e \in {"Fire", "Lava"}}

\* Snow above a liquid: above Oil held in place by Stone, with Fire beside the
\* Snow, and above Mercury that can change places with the Lava beside it
SnowOnLiquid ==
    {<<<<1, 1, "Snow">>, <<2, 0, "Fire">>, <<1, 2, "Oil">>, <<0, 2, "Stone">>,
       <<2, 2, "Stone">>>>,
     <<<<0, 1, "Snow">>, <<1, 2, "Lava">>, <<0, 2, "Mercury">>, <<2, 2, "Stone">>>>}

InitSnow ==
    \E lay \in SnowLayouts \cup SnowOnLiquid, seed \in Seeds :
        /\ Adjacent(<<lay[1][1], lay[1][2]>>, <<lay[2][1], lay[2][2]>>)
        /\ New(SnowW, SnowH, seed, ScriptOf(lay), FALSE)

NextSnow == NextScene(SnowTicks)

SpecSnow == InitSnow /\ [][NextSnow]_vars

(***************************************************************************)
(* SpecWire: a Wire or Metal cell with charge q in the middle of the grid, *)
(* with conductors and water of several charges beside it, and in one      *)
(* corner another conductor or something the charge can detonate           *)
(***************************************************************************)
WireW == 3
WireH == 3
WireTicks == 1

Charges == {0, 1, 3, 7}

NbrCharges == {0, 2, 9}

WireCorner == {Cell("Metal", 1), Cell("Hydrogen", 25), Cell("Gunpowder", 0)}

InitWire ==
    \E e \in {"Wire", "Metal"}, q \in Charges, l \in NbrCharges, m \in {0, 6},
       c \in WireCorner, seed \in Seeds :
        New(WireW, WireH, seed,
            <<SetCellCall(1, 1, Cell(e, q)), SetCellCall(0, 0, c),
              SetCellCall(1, 0, Cell("Water", l)), SetCellCall(2, 0, Cell("SaltWater", m)),
              SetCellCall(2, 1, Cell("Wire", l)), SetCellCall(0, 2, Cell("Metal", 0))>>,
            FALSE)

NextWire == NextScene(WireTicks)

SpecWire == InitWire /\ [][NextWire]_vars

(***************************************************************************)
(* SpecPair: one liquid cell on a Stone floor with a cell of any element   *)
(* to its left or right, or above a cell of any element held between Stone *)
(***************************************************************************)
PairW == 3
PairH == 3
PairTicks == 1

Liquids == {e \in Element : is_liquid(e)}

\* the liquid at (1, 1) and the element e at (x, y), with Stone in the rest of
\* the bottom row
PairLayout(t, e, x, y) ==
    <<<<1, 1, t>>, <<x, y, e>>>>
    \o SelectSeq(<<<<0, 2, "Stone">>, <<1, 2, "Stone">>, <<2, 2, "Stone">>>>,
                 LAMBDA p : <<p[1], p[2]>> # <<x, y>>)

InitPair ==
    \E t \in Liquids, e \in Element \ {"Empty"}, p \in {<<0, 1>>, <<2, 1>>, <<1, 2>>},
       seed \in Seeds :
        New(PairW, PairH, seed, ScriptOf(PairLayout(t, e, p[1], p[2])), FALSE)

NextPair == NextScene(PairTicks)

SpecPair == InitPair /\ [][NextPair]_vars

(***************************************************************************)
(* SpecDirt: one WetDirt cell with 1 to 3 ticks of moisture left, alone or *)
(* with one Water or SaltWater cell anywhere else in the grid              *)
(***************************************************************************)
DirtW == 3
DirtH == 3
DirtTicks == 3

Moistures == 1 .. DirtTicks

InitDirt ==
    \E p \in 1 .. DirtW * DirtH, l \in Moistures, seed \in Seeds :
        \/ New(DirtW, DirtH, seed,
               <<SetCellCall(Coords(DirtW, DirtH)[p][1], Coords(DirtW, DirtH)[p][2],
                             Cell("WetDirt", l))>>, FALSE)
        \/ \E q \in (1 .. DirtW * DirtH) \ {p}, e \in {"Water", "SaltWater"} :
              New(DirtW, DirtH, seed,
                  <<SetCellCall(Coords(DirtW, DirtH)[p][1], Coords(DirtW, DirtH)[p][2],
                                Cell("WetDirt", l)),
                    Brush(Coords(DirtW, DirtH)[q][1], Coords(DirtW, DirtH)[q][2], 0, e)>>,
                  FALSE)

NextDirt == NextScene(DirtTicks)

SpecDirt == InitDirt /\ [][NextDirt]_vars

(***************************************************************************)
(* SpecBolt: a bolt (brush-placed, life 2) or one Lightning cell of life   *)
(* 1 to 3 in the middle of a grid that its 5x5 neighbourhood covers, with  *)
(* conductors and water of several charges, and with or without something  *)
(* the Lightning detonates                                                 *)
(***************************************************************************)
BoltW == 5
BoltH == 3
BoltTicks == 2

Bolts ==
    {Brush(2, 0, 0, "Lightning")}
    \cup {SetCellCall(2, 1, Cell("Lightning", l)) : l \in 1 .. BoltTicks + 1}

BoltExtras == {<<>>, <<Brush(3, 0, 0, "Hydrogen")>>, <<Brush(1, 0, 0, "Gunpowder")>>}

InitBolt ==
    \E a \in {0, 20}, b \in {0, 9}, extra \in BoltExtras, bolt \in Bolts, seed \in Seeds :
        New(BoltW, BoltH, seed,
            <<SetCellCall(0, 0, Cell("Wire", a)), SetCellCall(4, 0, Cell("Metal", 5)),
              SetCellCall(0, 2, Cell("Water", b)), SetCellCall(4, 1, Cell("SaltWater", 3))>>
            \o extra \o <<bolt>>,
            FALSE)

NextBolt == NextScene(BoltTicks)

SpecBolt == InitBolt /\ [][NextBolt]_vars

(***************************************************************************)
(* SpecHorde: a Zombie standing on Stone in the middle of the grid, with   *)
(* Humans in any of the cells around it                                    *)
(***************************************************************************)
HordeW == 3
HordeH == 3
HordeTicks == 2

\* the cells around the Zombie, the one it stands on excepted
HordeSpots == CoordSeq({p \in {Coords(HordeW, HordeH)[k] : k \in 1 .. HordeW * HordeH} :
                           Adjacent(p, <<1, 1>>) /\ p # <<1, 2>>}, HordeW, HordeH)

\* the script that puts a Human of life 5 on each spot of S
HordeScript(S) ==
    LET spots == SelectSeq(HordeSpots, LAMBDA p : p \in S)
    IN  [k \in DOMAIN spots |-> SetCellCall(spots[k][1], spots[k][2], Cell("Human", 5))]

InitHorde ==
    \E S \in SUBSET {HordeSpots[k] : k \in DOMAIN HordeSpots}, seed \in Seeds :
        New(HordeW, HordeH, seed,
            <<Brush(1, 2, 0, "Stone"), Brush(1, 1, 0, "Zombie")>> \o HordeScript(S), FALSE)

NextHorde == NextScene(HordeTicks)

SpecHorde == InitHorde /\ [][NextHorde]_vars

(***************************************************************************)
(* SpecChase: a Human or Zombie on the bottom row of a grid wider than the *)
(* 13x13 window reaches from its first column, with up to two actors of    *)
(* the other kind: near and far, above and level, inside and outside the   *)
(* window                                                                  *)
(***************************************************************************)
ChaseW == 8
ChaseH == 3
ChaseTicks == 1

ChaseSpots ==
    <<<<0, 0>>, <<5, 0>>, <<ChaseW - 1, 0>>, <<1, 1>>, <<6, 1>>, <<2, ChaseH - 1>>,
      <<4, ChaseH - 1>>, <<ChaseW - 1, ChaseH - 1>>>>

Other(e) == IF e = "Human" THEN "Zombie" ELSE "Human"

\* the script that puts the element e on each spot of S
ChaseScript(S, e) ==
    LET spots == SelectSeq(ChaseSpots, LAMBDA p : p \in S)
    IN  [k \in DOMAIN spots |-> Brush(spots[k][1], spots[k][2], 0, e)]

InitChase ==
    \E me \in Actors, mx \in {0, 3}, seed \in Seeds,
       S \in {T \in SUBSET {ChaseSpots[k] : k \in DOMAIN ChaseSpots} : Cardinality(T) <= 2} :
        New(ChaseW, ChaseH, seed,
            ChaseScript(S, Other(me)) \o <<Brush(mx, ChaseH - 1, 0, me)>>, FALSE)

NextChase == NextScene(ChaseTicks)

SpecChase == InitChase /\ [][NextChase]_vars

(***************************************************************************)
(* SpecSink: one powder cell above the bottom row, which is Stone but for  *)
(* one cell that is Empty or a liquid with a life, straight below the      *)
(* powder or diagonally below it; above the powder nothing, Water or Fire  *)
(***************************************************************************)
SinkW == 3
SinkH == 3
SinkTicks == 1

Powders == {e \in Element : is_sand_like(e)}

\* what the open cell of the bottom row holds
SinkPools == {DefaultCell, Cell("Water", 0), Cell("Water", 5), Cell("Oil", 0), Cell("Oil", 5)}

SinkTops == {"Empty", "Water", "Fire"}

\* the Stone of the bottom row, but for column tx
SinkFloor(tx) ==
    [k \in 1 .. SinkW - 1 |-> Brush(IF k - 1 < tx THEN k - 1 ELSE k, SinkH - 1, 0, "Stone")]

SinkScript(t, tx, pool, top) ==
    SinkFloor(tx)
    \o (IF pool = DefaultCell THEN <<>> ELSE <<SetCellCall(tx, SinkH - 1, pool)>>)
    \o <<Brush(1, SinkH - 2, 0, t)>>
    \o (IF top = "Empty" THEN <<>> ELSE <<Brush(1, SinkH - 3, 0, top)>>)

InitSink ==
    \E t \in Powders, tx \in 0 .. 2, pool \in SinkPools, top \in SinkTops, seed \in Seeds :
        New(SinkW, SinkH, seed, SinkScript(t, tx, pool, top), FALSE)

NextSink == NextScene(SinkTicks)

SpecSink == InitSink /\ [][NextSink]_vars

(***************************************************************************)
(* SpecWall: a Wall cell in the middle of the grid, with any life, and any *)
(* element beside it; in the right column nothing, Fire or Water           *)
(***************************************************************************)
WallW == 3
WallH == 3
WallTicks == 2

WallLives == {0, 5}

\* where the element beside the Wall is placed
WallSides == {<<1, 0>>, <<0, 1>>, <<1, 2>>, <<0, 0>>}

WallCatalysts == {"Empty", "Fire", "Water"}

WallScript(l, e, p, f) ==
    <<SetCellCall(1, 1, Cell("Wall", l)), Brush(p[1], p[2], 0, e)>>
    \o (IF f = "Empty" THEN <<>> ELSE <<Brush(2, 1, 0, f)>>)

InitWall ==
    \E l \in WallLives, e \in Element \ {"Empty"}, p \in WallSides, f \in WallCatalysts,
       seed \in FewSeeds \cup {ZeroSeed} :
        New(WallW, WallH, seed, WallScript(l, e, p, f), FALSE)

NextWall == NextScene(WallTicks)

SpecWall == InitWall /\ [][NextWall]_vars

(***************************************************************************)
(* SpecCharge: a grid of Wire, Metal, Wall and Empty cells with two        *)
(* charged conductors                                                      *)
(***************************************************************************)
ChargeW == 3
ChargeH == 3
MaxCharge == 3
ChargeTicks == MaxCharge + 1

\* the positions of the conductors, as indices of the row-major order; the
\* cell 2 holds Wall, the others are Empty
ChargeShapes == {{0, 1, 3, 4, 5, 6, 7, 8}, {3, 4, 5}, {1, 4, 7}, {0, 4, 8, 5}}

\* the script that builds the shape S with charge qa on cell a, qb on cell b
\* and 0 on the others; Wire on the even and Metal on the odd indices
ChargeScript(S, a, qa, b, qb) ==
    <<Brush(2, 0, 0, "Wall")>>
    \o [k \in 1 .. Cardinality(S) |->
          LET j == CHOOSE m \in S : Cardinality({i \in S : i < m}) = k - 1
          IN  SetCellCall(j % ChargeW, j \div ChargeW,
                          Cell(IF j % 2 = 0 THEN "Wire" ELSE "Metal",
                               IF j = a THEN qa ELSE IF j = b THEN qb ELSE 0))]

InitCharge ==
    \E S \in ChargeShapes, qa \in 1 .. MaxCharge, qb \in 0 .. MaxCharge :
        \E a \in S : \E b \in S \ {a} :
            New(ChargeW, ChargeH, ZeroSeed, ChargeScript(S, a, qa, b, qb), FALSE)

NextCharge == NextScene(ChargeTicks)

SpecCharge == InitCharge /\ [][NextCharge]_vars

(***************************************************************************)
(* SpecStill: worlds of cells that have nothing to do, in diagonal stripes *)
(* of three kinds, and worlds without cells                                *)
(***************************************************************************)
StillW == 3
StillH == 3
StillTicks == 2

StillCells ==
    {DefaultCell, Cell("Wall", 0), Cell("Stone", 7), Cell("Glass", 0), Cell("Dirt", 0),
     Cell("Wood", 0), Cell("Coal", 4), Cell("Ice", 0), Cell("Wire", 0), Cell("Metal", 0)}

\* the script that fills the w x h grid with the cells of the sequence s in
\* diagonal stripes
StillScript(w, h, s) ==
    [k \in 1 .. w * h |->
        SetCellCall((k - 1) % w, (k - 1) \div w,
                    s[(((((k - 1) % w) + ((k - 1) \div w)) % Len(s)) + 1)])]

InitStill ==
    \E a \in StillCells, b \in StillCells, c \in StillCells, seed \in FewSeeds,
       d \in {<<StillW, StillH>>, <<0, StillH>>, <<StillW, 0>>, <<0, 0>>} :
        New(d[1], d[2], seed, StillScript(d[1], d[2], <<a, b, c>>), FALSE)

NextStill == NextScene(StillTicks)

SpecStill == InitStill /\ [][NextStill]_vars

(***************************************************************************)
(* Properties                                                              *)
(***************************************************************************)

\* C2 as stated: within one call of step, no cell is mutated by more than one
\* handler invocation.  (writes[i] counts the handler invocations of the
\* running step that changed cell i.)
C2_OneWriterPerCell == \A i \in DOMAIN writes : writes[i] <= 1

\* C2, amended: within one call of step, every cell is dispatched to at most
\* one handler invocation, and a cell whose mask entry is set when the scan
\* reaches it is skipped: no handler runs and neither the grid nor the RNG
\* changes.  (A handler also writes the neighbours it swaps with or reacts on,
\* so one cell can be changed by several invocations.)
C2_SingleDispatch ==
    /\ \A i \in DOMAIN visits : visits[i] <= 1
    /\ (last.op = "visit" /\ last.m) =>
          (last.h = "masked" /\ cells = pre.cells /\ rng = pre.rng)

\* a masked cell has just been skipped in a step in which some cell,
\* dispatched once, was changed by two handler invocations
C2_Witness ==
    /\ last.op = "visit" /\ last.m
    /\ \E i \in DOMAIN writes : writes[i] >= 2 /\ visits[i] = 1

ColX == IF width = 1 THEN 0 ELSE 1

ColAt(y) == cells[y * width + ColX].elem

ColSorted ==
    /\ ColAt(height - 1) = "Mercury"
    /\ ColAt(height - 2) = "Water"
    /\ ColAt(height - 3) = "Oil"
    /\ \A y \in 0 .. height - 4 : ColAt(y) = "Empty"

\* C8: the closed column of Mercury over Water over Oil is in the arrangement
\* Oil on top, Water in the middle, Mercury at the bottom (all above Empty)
\* after height - 1 steps whatever the seed, and in every state after that,
\* between and inside the later steps.
C8_ColumnSorts == (todo = <<>> /\ ticks >= ColH - 1) => ColSorted

\* the column was built unsorted, has taken height - 1 steps and is sorted
C8_Witness ==
    /\ todo = <<>> /\ ticks = ColH - 1 /\ pc = "idle"
    /\ ColSorted
    /\ grid0 # cells

\* C3 as stated: for every world size and every (x, y) outside
\* [0, width) x [0, height), get_cell returns {Empty, 0} and set_cell returns 0
\* and changes no cell; and no coordinate-based accessor indexes outside the
\* cell buffer: the index computed for an in-bounds (x, y) is an index of the
\* buffer.
C3_BoundsSafe ==
    /\ \A x \in -1 .. GridW, y \in -1 .. GridH :
          IF in_bounds(Wld, x, y) THEN idx(Wld, x, y) \in DOMAIN cells
          ELSE get_cell(Wld, x, y) = DefaultCell
    /\ (last.op = "set_cell" /\ ~in_bounds(Wld, last.x, last.y)) =>
          (ret = 0 /\ cells = pre.cells)

\* the cells of column cx in rows a .. b were Empty or a gas before the call
ClearBelow(a, b) ==
    \A yy \in a .. b :
        pre.cells[yy * width + last.cx].elem = "Empty"
        \/ is_gas(pre.cells[yy * width + last.cx].elem)

\* the grid after a bolt from (cx, cy) down to row yEnd
BoltDrawn(yEnd) ==
    \A i \in DOMAIN cells :
        cells[i] =
            IF i % width = last.cx /\ i \div width \in last.cy .. yEnd
            THEN Cell("Lightning", 2)
            ELSE IF i = (yEnd + 1) * width + last.cx
                    /\ pre.cells[i].elem \in {"Water", "SaltWater"}
            THEN Cell(pre.cells[i].elem, Max(pre.cells[i].life, 8))
            ELSE pre.cells[i]

\* C5: when place_brush(cx, cy, r, Lightning) returns, whatever r: for an
\* in-bounds (cx, cy) exactly the cells (cx, cy) .. (cx, yEnd) are Lightning
\* with life 2, where yEnd is the lowest row such that every cell of the column
\* in rows cy+1 .. yEnd was Empty or a gas; the cell below yEnd is not
\* overwritten, but has its life raised to max(old life, 8) if it is Water or
\* SaltWater; no other cell changes; an out-of-bounds (cx, cy) changes nothing.
C5_LightningBolt ==
    (last.op = "place_brush" /\ last.elem = "Lightning") =>
        /\ width = pre.width /\ height = pre.height /\ rng = pre.rng
        /\ IF ~in_bounds(Wld, last.cx, last.cy) THEN cells = pre.cells
           ELSE \E yEnd \in last.cy .. height - 1 :
                   /\ ClearBelow(last.cy + 1, yEnd)
                   /\ (yEnd + 1 < height => ~ClearBelow(yEnd + 1, yEnd + 1))
                   /\ BoltDrawn(yEnd)

\* a bolt of two or more cells has been placed through a gas onto Water, which
\* it charged to 8; and on another path onto Water that kept a higher charge
C5_Witness ==
    /\ last.op = "place_brush" /\ last.elem = "Lightning" /\ last.rad = 1
    /\ in_bounds(Wld, last.cx, last.cy)
    /\ \E i \in DOMAIN cells :
          /\ is_gas(pre.cells[i].elem) /\ cells[i] = Cell("Lightning", 2)
          /\ i + width \in DOMAIN cells
          /\ pre.cells[i + width] = Cell("Water", 0)
          /\ cells[i + width] = Cell("Water", 8)
          /\ i - width \in DOMAIN cells /\ cells[i - width] = Cell("Lightning", 2)

\* dx^2 + dy^2 <= r^2 over the integers, for offsets inside the grid
InDisc(dx, dy, r) == Overflows(r, r) \/ dx * dx + dy * dy <= r * r

\* C6 as stated: when place_brush(cx, cy, r, m) returns, for a non-Lightning m
\* and r >= 0, exactly the in-bounds cells with dx^2 + dy^2 <= r^2 hold m with
\* life 20 if m is Fire, 25 if m is a gas, else 0, and every other cell, the
\* dimensions and the RNG state are unchanged.
C6_BrushFill ==
    (last.op = "place_brush" /\ last.elem # "Lightning" /\ last.rad >= 0) =>
        /\ width = pre.width /\ height = pre.height /\ rng = pre.rng
        /\ \A i \in DOMAIN cells :
              cells[i] =
                  IF InDisc((i % width) - last.cx, (i \div width) - last.cy, last.rad)
                  THEN Cell(last.elem,
                            IF last.elem = "Fire" THEN 20
                            ELSE IF is_gas(last.elem) THEN 25 ELSE 0)
                  ELSE pre.cells[i]

\* what explode may leave in a cell it converts
BlastProducts ==
    {Cell("Fire", l) : l \in 15 .. 25} \cup {Cell("Smoke", 20), Cell("Gas", 20)}

\* the explosion e, a record of the call explode(cx, cy, r) with the grid before
\* and after it, left cell i as C4 says
BlastedAsStated(e, i) ==
    IF ((i % width) - e.cx) * ((i % width) - e.cx)
         + ((i \div width) - e.cy) * ((i \div width) - e.cy) <= e.r * e.r
    THEN IF e.before[i].elem \in {"Wall", "Stone", "Glass", "Metal", "Wire", "Ice"}
         THEN e.after[i] = e.before[i]
         ELSE e.after[i] \in BlastProducts
    ELSE e.after[i] = e.before[i]

\* C4: when explode(cx, cy, r) returns, every in-bounds cell within the radius
\* that was Wall, Stone, Glass, Metal, Wire or Ice is unchanged, every other
\* in-bounds cell within the radius (Empty ones too) is Fire with life 15..25,
\* Smoke with life 20 or Gas with life 20, and every cell outside the radius
\* is unchanged.  (exlog holds the explode calls of the last handler
\* invocation.)
C4_Explosion ==
    \A k \in DOMAIN exlog : \A i \in DOMAIN cells : BlastedAsStated(exlog[k], i)

\* an explosion has returned that had, within its radius, an indestructible
\* cell and an Empty cell, and a non-Empty cell outside its radius
C4_Witness ==
    \E k \in DOMAIN exlog :
        /\ \E i \in DOMAIN cells :
              exlog[k].before[i].elem = "Ice" /\ exlog[k].after[i].elem = "Ice"
        /\ \E i \in DOMAIN cells :
              exlog[k].before[i].elem = "Empty" /\ exlog[k].after[i] \in BlastProducts
        /\ \E i \in DOMAIN cells :
              /\ exlog[k].before[i].elem = "Sand" /\ exlog[k].after[i].elem = "Sand"
              /\ ((i % width) - exlog[k].cx) * ((i % width) - exlog[k].cx)
                   + ((i \div width) - exlog[k].cy) * ((i \div width) - exlog[k].cy)
                 > exlog[k].r * exlog[k].r

NonEmpty(c) == {i \in DOMAIN c : c[i].elem # "Empty"}

\* the index of the only non-Empty cell of the grid c
Only(c) == CHOOSE i \in DOMAIN c : c[i].elem # "Empty"

\* the grid c holds one non-Empty cell, a powder or a liquid, above the bottom row
Falling(c) ==
    /\ Cardinality(NonEmpty(c)) = 1
    /\ is_sand_like(c[Only(c)].elem) \/ is_liquid(c[Only(c)].elem)
    /\ Only(c) \div width < height - 1

\* C7: a step that begins with one powder or liquid cell above the bottom row
\* as the only non-Empty cell of the grid ends with that cell, material and
\* life unchanged, exactly one row down in the same column as the only
\* non-Empty cell; and at every moment of the step it is either where it was
\* or one row down.  (tick0 is the grid when the running or last step began.)
C7_SingleFall ==
    Falling(tick0) =>
        /\ NonEmpty(cells) \in {{Only(tick0)}, {Only(tick0) + width}}
        /\ cells[Only(cells)] = tick0[Only(tick0)]
        /\ pc = "idle" => NonEmpty(cells) = {Only(tick0) + width}

\* a cell placed on the top row with life 7 has fallen two rows in two steps
C7_Witness ==
    /\ pc = "idle" /\ ticks = 2
    /\ Cardinality(NonEmpty(grid0)) = 1
    /\ Only(grid0) \div width = 0
    /\ grid0[Only(grid0)].life = 7
    /\ NonEmpty(cells) = {Only(grid0) + 2 * width}
    /\ cells[Only(grid0) + 2 * width] = grid0[Only(grid0)]

\* the index of the Fire cell the host placed
Fire0 == CHOOSE i \in DOMAIN grid0 : grid0[i].elem = "Fire"

\* the Wood cells in the 8-neighbourhood of the placed Fire cell
WoodByFire ==
    {i \in DOMAIN grid0 :
        /\ grid0[i].elem = "Wood"
        /\ Adjacent(<<i % width, i \div width>>, <<Fire0 % width, Fire0 \div width>>)}

\* C9: with a brush-placed Fire cell in the 8-neighbourhood of a line of Wood,
\* whatever the seed, after the first step at least one Wood cell adjacent to
\* the Fire is Wood no more, and a handler invocation that changes the
\* material of a Wood cell makes it Fire: so at least one adjacent Wood cell
\* has become Fire within one step.
C9_Ignites ==
    /\ last.op = "visit" =>
          \A i \in DOMAIN cells :
              (pre.cells[i].elem = "Wood" /\ cells[i].elem # "Wood") => cells[i].elem = "Fire"
    /\ ticks >= 1 => \E i \in WoodByFire : cells[i].elem # "Wood"

\* after one step two Wood cells next to the placed Fire are burning, and the
\* placed Fire has risen and left Smoke behind
C9_Witness ==
    /\ pc = "idle" /\ ticks = 1
    /\ grid0[Fire0].life = 20
    /\ cells[Fire0].elem = "Smoke"
    /\ Cardinality({i \in WoodByFire : cells[i].elem = "Fire"}) >= 2

\* C10: the handler invocation for the followed Fire particle (the placed
\* Fire cell, followed when it rises) either moves it up with its life
\* unchanged, or lowers its life by one, or, when that brings its life to 0,
\* converts it to Smoke with life 15; no other handler invocation changes it;
\* and after 20 + (height - 1) steps, whatever the seed, it is Fire no more.
C10_BurnsOut ==
    /\ (last.op = "visit" /\ last.tracked /\ last.h = "fire") =>
          \/ /\ track >= 0 /\ track # last.i
             /\ cells[track] = pre.cells[last.i]
          \/ /\ track = last.i
             /\ pre.cells[last.i].life - 1 > 0
             /\ cells[track] = Cell("Fire", pre.cells[last.i].life - 1)
          \/ /\ track = -2
             /\ pre.cells[last.i].life - 1 <= 0
             /\ cells[last.i] = Cell("Smoke", 15)
    /\ (last.op = "visit" /\ ~(last.tracked /\ last.h = "fire") /\ track >= 0) =>
          cells[track] = pre.cells[track]
    /\ track >= 0 => cells[track].elem = "Fire"
    /\ (track # -1 /\ ticks >= 20 + (BurnH - 1)) => track = -2

\* the placed Fire has risen from where it was placed and has just burnt out
\* to Smoke with life 15, after more than 20 steps
C10_Witness ==
    /\ last.op = "visit" /\ last.tracked /\ last.h = "fire"
    /\ track = -2
    /\ last.i # Fire0
    /\ ticks > 20
    /\ pre.cells[last.i] = Cell("Fire", 1)
    /\ cells[last.i] = Cell("Smoke", 15)

\* the outputs of next_u32 from the state S under s -> s*1664525 + 1013904223
\* mod 2^64, output (s >> 16) mod 2^32, computed with 64-bit integers and
\* written as 16-bit halves
Reference(S) ==
    CASE S = <<1, 0, 0, 0>> ->
           <<[hi |-> 0, lo |-> 15496], [hi |-> 370, lo |-> 24200], [hi |-> 57294, lo |-> 33046],
             [hi |-> 16401, lo |-> 46195], [hi |-> 60941, lo |-> 3312], [hi |-> 36172, lo |-> 24216]>>
      [] S = <<42, 0, 0, 0>> ->
           <<[hi |-> 0, lo |-> 16537], [hi |-> 26819, lo |-> 5775], [hi |-> 16613, lo |-> 37832],
             [hi |-> 13092, lo |-> 14585], [hi |-> 38883, lo |-> 24619], [hi |-> 45847, lo |-> 1681]>>
      [] S = <<5, 0, 1, 0>> ->
           <<[hi |-> 26125, lo |-> 15597], [hi |-> 26671, lo |-> 47977], [hi |-> 40050, lo |-> 15930],
             [hi |-> 35398, lo |-> 55898], [hi |-> 37752, lo |-> 46950], [hi |-> 32568, lo |-> 23616]>>
      [] S = <<47806, 51966, 48879, 57005>> ->
           <<[hi |-> 4079, lo |-> 18004], [hi |-> 867, lo |-> 49189], [hi |-> 44623, lo |-> 3465],
             [hi |-> 43979, lo |-> 29072], [hi |-> 57266, lo |-> 9879], [hi |-> 7228, lo |-> 28047]>>
      [] S = <<65535, 65535, 65535, 65535>> ->
           <<[hi |-> 0, lo |-> 15445], [hi |-> 64616, lo |-> 12311], [hi |-> 1735, lo |-> 8835],
             [hi |-> 3775, lo |-> 41343], [hi |-> 57221, lo |-> 47029], [hi |-> 37298, lo |-> 57284]>>

\* the first k calls made on the generator were all next_u32
OnlyNext(k) == \A j \in 2 .. k + 1 : drawn[j].call.op = "next_u32"

\* C11: for a seed S # 0, as long as only next_u32 has been called, the k-th
\* call returned the k-th value of the reference sequence of the LCG
\* s*1664525 + 1013904223 mod 2^64 with output (s >> 16) mod 2^32 from S.
C11_RngSequence ==
    drawn[1].seed # <<0, 0, 0, 0>> =>
        \A k \in 1 .. Len(drawn) - 1 :
            OnlyNext(k) => drawn[k + 1].out = Reference(drawn[1].seed)[k]

\* MaxDraws calls of next_u32 from a seed with a bit above bit 31 have returned
\* values whose upper half is not 0
C11_Witness ==
    /\ drawn[1].seed = <<5, 0, 1, 0>>
    /\ Len(drawn) = MaxDraws + 1
    /\ OnlyNext(MaxDraws)
    /\ \A k \in 2 .. Len(drawn) : drawn[k].out.hi > 0

\* the last call was made on the generator alone
Draws == last.op \in {"next_u32", "range_i32", "chance"}

\* C12 as stated: every call of next_u32, range_i32 and chance, whatever its
\* arguments, leaves the generator one LCG step from where it found it.
C12_AdvancesOnce == Draws => rng = next_state(pre.rng)

\* C12, amended: next_u32 and range_i32 advance the state by one LCG step per
\* call, and so does chance(pct) for 0 < pct < 100; chance(0) and chance(pct)
\* with pct >= 100 leave the state as it was.
C12_AdvancesOnceOrNot ==
    Draws =>
        IF last.op = "chance" /\ (last.pct = 0 \/ last.pct >= 100)
        THEN rng = pre.rng
        ELSE rng = next_state(pre.rng) /\ rng # pre.rng

\* a range_i32 over an empty range has just advanced the state, after a
\* chance(100) that did not
C12_Witness ==
    /\ Len(drawn) = 3
    /\ drawn[2].call = [op |-> "chance", pct |-> 100]
    /\ drawn[3].call = [op |-> "range_i32", min |-> 3, max |-> 1]
    /\ rng = next_state(RngNew(drawn[1].seed))

\* v mod 100 for a u32 v given as 16-bit halves, by 31-bit arithmetic:
\* 2^31 mod 100 = 48
Mod100(v) ==
    IF v.hi < 32768 THEN (v.hi * 65536 + v.lo) % 100
    ELSE ((((v.hi - 32768) * 65536 + v.lo) % 100) + 48) % 100

\* C13: chance(pct) returns false when pct = 0, true when pct >= 100, and
\* otherwise whether the value next_u32 returns from the same state, modulo
\* 100, is below pct.
C13_Chance ==
    (Len(drawn) > 1 /\ last.op = "chance") =>
        drawn[Len(drawn)].out =
            IF last.pct = 0 THEN FALSE
            ELSE IF last.pct >= 100 THEN TRUE
            ELSE Mod100(next_u32(pre.rng)) < last.pct

\* chance(31) has returned false on a draw of 31 modulo 100, the smallest that
\* fails, after it returned true on a draw of 30, the largest that succeeds
C13_Witness ==
    /\ Len(drawn) = 5
    /\ last = [op |-> "chance", pct |-> 31]
    /\ drawn[4] = [call |-> last, out |-> TRUE]
    /\ drawn[5] = [call |-> last, out |-> FALSE]
    /\ Mod100(next_u32(pre.rng)) = 31
    /\ Mod100(Bits(pre.rng)) = 30

\* C14: Rng::new turns the seed 0 into 0xDEADBEEFCAFEBABE and keeps every
\* other seed; the world made with seed 0 is made without a panic, and the
\* values its generator returns are those of the generator seeded with
\* 0xDEADBEEFCAFEBABE.
C14_ZeroSeed ==
    /\ last.op = "new" =>
          rng = IF last.seed = <<0, 0, 0, 0>> THEN <<47806, 51966, 48879, 57005>>
                ELSE last.seed
    /\ drawn[1].seed = <<0, 0, 0, 0>> =>
          /\ pc = "idle"
          /\ \A k \in 1 .. Len(drawn) - 1 :
                OnlyNext(k) => drawn[k + 1].out = Reference(<<47806, 51966, 48879, 57005>>)[k]

\* the world made with seed 0 has drawn MaxDraws values
C14_Witness ==
    /\ drawn[1].seed = <<0, 0, 0, 0>>
    /\ Len(drawn) = MaxDraws + 1
    /\ OnlyNext(MaxDraws)
    /\ rng # <<0, 0, 0, 0>>

\* C15 as stated: when new(w, h, seed) or resize(w, h) has returned, width is
\* max(w, 0), height is max(h, 0), and every cell is {Empty, 0}: every cell
\* the buffer holds, and the corner cells of the width x height grid, which
\* the buffer must hold.
C15_FreshGrid ==
    (last.op \in {"new", "resize"} /\ pc # "aborted") =>
        /\ width = Max(last.w, 0)
        /\ height = Max(last.h, 0)
        /\ \A i \in DOMAIN cells : cells[i] = DefaultCell
        /\ \A x \in {0, width - 1}, y \in {0, height - 1} :
              in_bounds(Wld, x, y) => get_cell(Wld, x, y) = DefaultCell

\* C16: when clear() has returned every cell is {Empty, 0}, and width, height
\* and the state of the generator are what they were before the call.
C16_Clear ==
    last.op = "clear" =>
        /\ \A i \in DOMAIN cells : cells[i] = DefaultCell
        /\ width = pre.width /\ height = pre.height
        /\ DOMAIN cells = DOMAIN pre.cells
        /\ rng = pre.rng

\* clear() has emptied a grid that held a Wall, a powder and a solid
C16_Witness ==
    /\ last.op = "clear"
    /\ {"Wall", "Sand", "Stone"} \subseteq {pre.cells[i].elem : i \in DOMAIN pre.cells}
    /\ cells # pre.cells
    /\ width = GridW /\ height = GridH

\* C17 as stated: in every state every cell has life >= 0.
C17_LifeNonNegative == \A i \in DOMAIN cells : cells[i].life >= 0

\* the handler dispatched last moved its cell to index j
MovedTo(j) ==
    /\ last.op = "visit"
    /\ last.h \notin {"masked", "skip", "static"}
    /\ j # last.i
    /\ cells[j].elem = pre.cells[last.i].elem
    /\ pre.cells[j].elem # pre.cells[last.i].elem
    /\ cells[last.i].elem # pre.cells[last.i].elem

\* the running step began with one non-Empty cell and the grid holds one now
Lone == Cardinality(NonEmpty(tick0)) = 1 /\ Cardinality(NonEmpty(cells)) = 1

\* C18 as stated: when a handler has moved its cell, the mask entry of the
\* destination is set on its return; and a cell that is alone in the grid is
\* dispatched to a handler at no more than one index in a tick.
C18_MovedIsMarked ==
    /\ \A j \in DOMAIN cells : MovedTo(j) => updated[j]
    /\ (pc = "step" /\ Lone) => Cardinality({i \in DOMAIN visits : visits[i] > 0}) <= 1

\* C19 as stated: when a step has run on a grid that held a Human or Zombie
\* alone, the actor is at most one column and one row from where the step
\* found it, and its life has grown by at most 1.
C19_OneCellPerTick ==
    (last.op = "step_end" /\ Lone /\ tick0[Only(tick0)].elem \in Actors) =>
        /\ ((Only(cells) % width) - (Only(tick0) % width)) \in -1 .. 1
        /\ ((Only(cells) \div width) - (Only(tick0) \div width)) \in -1 .. 1
        /\ \/ cells[Only(cells)].life <= tick0[Only(tick0)].life
           \/ cells[Only(cells)].life = tick0[Only(tick0)].life + 1

\* the cell the last visit was dispatched on had Fire or Lava in its
\* 8-neighbourhood when it was visited
HeatBeside ==
    \E dx \in -1 .. 1, dy \in -1 .. 1 :
        /\ ~(dx = 0 /\ dy = 0)
        /\ last.x + dx \in 0 .. width - 1
        /\ last.y + dy \in 0 .. height - 1
        /\ pre.cells[(last.y + dy) * width + last.x + dx].elem \in {"Fire", "Lava"}

\* C20 as stated: a Gunpowder cell that is visited with Fire or Lava in its
\* 8-neighbourhood is given to the gunpowder handler, which calls explode
\* with radius 5 on the cell's own coordinates and moves the cell nowhere.
C20_GunpowderExplodes ==
    (last.op = "visit" /\ ~last.m /\ pre.cells[last.i].elem = "Gunpowder" /\ HeatBeside) =>
        /\ last.h = "gunpowder"
        /\ exlog # <<>>
        /\ \A k \in DOMAIN exlog :
              exlog[k].cx = last.x /\ exlog[k].cy = last.y /\ exlog[k].r = 5
        /\ \A j \in DOMAIN cells \ {last.i} :
              cells[j].elem = "Gunpowder" => pre.cells[j].elem = "Gunpowder"

(***************************************************************************)
(* C21: the lifetime of a gas                                              *)
(***************************************************************************)
\* the gas handler was dispatched on cell last.i, which held a gas
GasVisited == last.op = "visit" /\ last.h = "gas"

\* the cells that hold the element e
Holding(e) == {j \in DOMAIN cells : cells[j].elem = e}

\* what a gas of element t may leave when its life runs out
GasRemains(t) ==
    {DefaultCell} \cup (IF t = "Steam" THEN {Cell("Water", 0)} ELSE {})
                  \cup (IF t = "Smoke" THEN {Cell("Ash", 0)} ELSE {})

\* C21 as stated, for the lone gas cell of SpecGas: when the gas handler has
\* processed the gas cell, which had life L, the gas has life L - 1 wherever it
\* now is (whether or not it moved) and nothing else has changed, or, when
\* L - 1 <= 0, the gas is gone and its cell holds Empty (or Water for Steam,
\* Ash for Smoke) with life 0; and a gas of life L is no longer a gas when
\* L ticks are over.
C21_GasLifetime ==
    /\ GasVisited =>
          LET t == pre.cells[last.i].elem
              L == pre.cells[last.i].life
          IN  IF L - 1 <= 0
              THEN /\ Holding(t) = {}
                   /\ cells[last.i] \in GasRemains(t)
              ELSE /\ Cardinality(Holding(t)) = 1
                   /\ \A j \in Holding(t) : cells[j].life = L - 1
                   /\ \A j \in DOMAIN cells \ Holding(t) : cells[j] = DefaultCell
    /\ (pc = "idle" /\ ticks >= 1) =>
          \A j \in DOMAIN grid0 :
              (is_gas(grid0[j].elem) /\ ticks >= grid0[j].life)
                  => \A k \in DOMAIN cells : ~is_gas(cells[k].elem)

\* what does hold: the handler takes 1 from the life of the cell at the index
\* it was dispatched on, and a gas that moved has left that index
C21_GasStays ==
    GasVisited =>
        LET t == pre.cells[last.i].elem
            L == pre.cells[last.i].life
        IN  /\ (Holding(t) = {last.i} /\ L - 1 > 0) => cells[last.i].life = L - 1
            /\ \A j \in Holding(t) \ {last.i} : cells[j].life = L

(***************************************************************************)
(* C22: Snow melts beside Fire or Lava                                     *)
(***************************************************************************)
\* the powder handler was dispatched on a Snow cell that had Fire or Lava
\* within its 1-cell radius
SnowVisitedNearHeat ==
    /\ last.op = "visit"
    /\ last.h = "powder"
    /\ pre.cells[last.i].elem = "Snow"
    /\ \E k \in DOMAIN Offs1 :
          InAnd(pre, last.x + Offs1[k][1], last.y + Offs1[k][2], {"Fire", "Lava"})

\* C22 as stated: when a Snow cell is processed with Fire or Lava within its
\* 1-cell radius, the Snow cell itself has become Water with life 0, and no
\* other cell has changed.
C22_SnowMelts ==
    SnowVisitedNearHeat =>
        /\ cells[last.i] = Cell("Water", 0)
        /\ \A j \in DOMAIN cells \ {last.i} : cells[j] = pre.cells[j]

\* C22 for the Snow that cannot move
C22_RestingSnowMelts ==
    (SnowVisitedNearHeat /\ PowderMove(pre @@ [updated |-> updated, exlog |-> <<>>],
                                       last.x, last.y).cells[last.i].elem = "Snow") =>
        /\ cells[last.i] = Cell("Water", 0)
        /\ \A j \in DOMAIN cells \ {last.i} : cells[j] = pre.cells[j]

(***************************************************************************)
(* C23: the order of the scan                                              *)
(***************************************************************************)
\* the place of cell j in the order the claim gives: rows from height - 1 down
\* to 0, and columns from 0 to width - 1 within a row
Rank(j) == ((height - 1) - (j \div width)) * width + (j % width)

\* C23: within one step the cells are considered by decreasing row and, within
\* a row, increasing column: the k-th cell considered is the one of rank k - 1,
\* and no handler has run on a cell the scan has yet to reach.  A cell whose
\* mask entry is set when it is reached is skipped, no handler runs and
\* nothing changes; an Empty or Wall cell runs no handler either.
C23_ScanOrder ==
    /\ pc = "step" => \A j \in DOMAIN visits : visits[j] >= 1 => Rank(j) < pos
    /\ last.op = "visit" =>
          /\ Rank(last.i) = pos - 1
          /\ last.i = last.y * width + last.x
          /\ last.m => (last.h = "masked" /\ cells = pre.cells /\ rng = pre.rng
                          /\ visits[last.i] = 0)
          /\ pre.cells[last.i].elem \in {"Empty", "Wall"} =>
                (last.h \in {"masked", "skip"} /\ cells = pre.cells /\ rng = pre.rng
                    /\ visits[last.i] = 0 /\ updated[last.i])

\* the scan has skipped a Wall cell and, in a row above the bottom one, a
\* cell that a handler had marked
C23_Witness ==
    /\ last.op = "visit" /\ last.m /\ last.y < height - 1
    /\ \E j \in DOMAIN cells :
          cells[j].elem = "Wall" /\ Rank(j) < pos /\ visits[j] = 0
    /\ \E j \in DOMAIN visits : visits[j] = 1

(***************************************************************************)
(* C24: a conductor passes its charge on, less 1                           *)
(***************************************************************************)
\* the conductor handler was dispatched on cell last.i
ConductorVisited == last.op = "visit" /\ last.h = "conductor"

\* the cells of the 8-neighbourhood of the visited cell
NbrsOfLast == {j \in DOMAIN cells : IsNbr8(pre, last.x, last.y, j)}

Carriers == {"Wire", "Metal", "Water", "SaltWater"}

\* the neighbour j has the charge the claim gives it
Charged(j, q) == cells[j] = Cell(pre.cells[j].elem, Max(pre.cells[j].life, q - 1))

\* C24 as stated: when a Wire/Metal cell with charge q > 0 is processed, each
\* Wire, Metal, Water or SaltWater cell of its 8-neighbourhood ends with life
\* max(old life, q - 1) and the conductor's own life becomes q - 1; a
\* conductor with life 0 changes nothing.
C24_ChargeSpreads ==
    ConductorVisited =>
        IF pre.cells[last.i].life > 0
        THEN /\ \A j \in NbrsOfLast :
                   pre.cells[j].elem \in Carriers => Charged(j, pre.cells[last.i].life)
             /\ cells[last.i] = Cell(pre.cells[last.i].elem, pre.cells[last.i].life - 1)
        ELSE cells = pre.cells /\ rng = pre.rng

\* C24, amended: the same for the Wire and Metal neighbours and for the
\* conductor itself, and for the Water and SaltWater neighbours unless the
\* handler detonated a neighbour, in which case the explosion may have
\* replaced them by Fire, Smoke or Gas.
C24_ChargeSpreadsUnlessBlasted ==
    ConductorVisited =>
        IF pre.cells[last.i].life > 0
        THEN /\ \A j \in NbrsOfLast :
                   /\ pre.cells[j].elem \in {"Wire", "Metal"}
                         => Charged(j, pre.cells[last.i].life)
                   /\ pre.cells[j].elem \in {"Water", "SaltWater"}
                         => \/ Charged(j, pre.cells[last.i].life)
                            \/ exlog # <<>> /\ cells[j] \in BlastProducts
             /\ cells[last.i] = Cell(pre.cells[last.i].elem, pre.cells[last.i].life - 1)
        ELSE cells = pre.cells /\ rng = pre.rng

\* a conductor with charge 3 has raised a Water neighbour from 0 to 2, left a
\* neighbour with charge 6 alone, and is left with charge 2
C24_Witness ==
    /\ ConductorVisited
    /\ pre.cells[last.i].life = 3
    /\ cells[last.i].life = 2
    /\ \E j \in NbrsOfLast : pre.cells[j] = Cell("Water", 0) /\ cells[j] = Cell("Water", 2)
    /\ \E j \in NbrsOfLast : pre.cells[j].life = 6 /\ cells[j] = pre.cells[j]

(***************************************************************************)
(* C25: what a liquid displaces                                            *)
(***************************************************************************)
\* the liquid handler was dispatched on cell last.i
LiquidVisited == last.op = "visit" /\ last.h = "liquid"

\* the densities the claim gives; Lava, a liquid it does not list, has the
\* density of the density function
StatedDensity(e) ==
    CASE e = "Mercury" -> 200
      [] e = "Acid" -> 110
      [] e = "SaltWater" -> 103
      [] e = "Water" -> 100
      [] e = "Oil" -> 90
      [] e = "Ethanol" -> 85
      [] OTHER -> density(e)

\* the liquid t may move into a cell that holds e
MayDisplace(t, e) ==
    \/ e = "Empty"
    \/ is_gas(e)
    \/ is_liquid(e) /\ StatedDensity(t) > StatedDensity(e)

\* the cells directly below, left and right of the visited cell
BelowOrBeside ==
    {j \in DOMAIN cells :
        \E o \in {<<0, 1>>, <<-1, 0>>, <<1, 0>>} :
            in_bounds(pre, last.x + o[1], last.y + o[2])
            /\ j = idx(pre, last.x + o[1], last.y + o[2])}

\* the cells the element t has come to
Arrived(t) == {j \in DOMAIN cells : cells[j].elem = t /\ pre.cells[j].elem # t}

\* C25: a liquid handler moves its cell only into an Empty cell, a gas cell or
\* a liquid cell of strictly lower density, directly below or directly left or
\* right: the liquid has come to no other cell, and when the handler moved it
\* (it left the mask entry of the cell clear) there is such a cell it has come to.
C25_Displacement ==
    LiquidVisited =>
        /\ \A j \in Arrived(pre.cells[last.i].elem) :
              j \in BelowOrBeside /\ MayDisplace(pre.cells[last.i].elem, pre.cells[j].elem)
        /\ ~updated[last.i] => Arrived(pre.cells[last.i].elem) # {}
        /\ Cardinality(Arrived(pre.cells[last.i].elem)) <= 1

\* Mercury has changed places with the Water on its left
C25_Witness ==
    /\ LiquidVisited
    /\ pre.cells[last.i].elem = "Mercury"
    /\ last.x > 0
    /\ pre.cells[last.i - 1].elem = "Water"
    /\ cells[last.i - 1].elem = "Mercury"
    /\ cells[last.i].elem = "Water"
    /\ ~updated[last.i]

(***************************************************************************)
(* C26: WetDirt dries                                                      *)
(***************************************************************************)
\* the WetDirt handler was dispatched on cell last.i, which had life >= 1
WetDirtVisited ==
    last.op = "visit" /\ last.h = "wet_dirt" /\ pre.cells[last.i].life >= 1

\* Water or SaltWater was in the 3x3 neighbourhood of the visited cell
WaterNear ==
    \E k \in DOMAIN Offs1 :
        InAnd(pre, last.x + Offs1[k][1], last.y + Offs1[k][2], {"Water", "SaltWater"})

\* C26: a WetDirt cell with life L >= 1 is processed once in every tick; when
\* there is no Water or SaltWater in its 3x3 neighbourhood it loses exactly 1
\* life and becomes Dirt with life 0 when that reaches 0, and with Water or
\* SaltWater there it keeps its life and stays WetDirt; so a WetDirt cell
\* with no water about is WetDirt with life L - n after n < L ticks and Dirt
\* with life 0 after L.
C26_WetDirtDries ==
    /\ WetDirtVisited =>
          /\ cells[last.i] =
                IF WaterNear THEN pre.cells[last.i]
                ELSE IF pre.cells[last.i].life - 1 = 0 THEN Cell("Dirt", 0)
                ELSE Cell("WetDirt", pre.cells[last.i].life - 1)
          /\ \A j \in DOMAIN cells \ {last.i} : cells[j] = pre.cells[j]
    /\ (pc = "idle" /\ ticks >= 1) =>
          \A j \in DOMAIN tick0 : tick0[j].elem = "WetDirt" => visits[j] = 1
    /\ (pc = "idle" /\ ticks >= 1 /\ \A j \in DOMAIN grid0 : grid0[j].elem \in {"WetDirt", "Empty"}) =>
          \A j \in DOMAIN grid0 :
              grid0[j].elem = "WetDirt" =>
                  cells[j] = IF ticks < grid0[j].life
                             THEN Cell("WetDirt", grid0[j].life - ticks)
                             ELSE Cell("Dirt", 0)

\* a WetDirt cell that started with life 3 and no water about has become
\* Dirt in the third tick
C26_Witness ==
    /\ WetDirtVisited
    /\ ticks = 2
    /\ grid0[last.i] = Cell("WetDirt", 3)
    /\ pre.cells[last.i] = Cell("WetDirt", 1)
    /\ cells[last.i] = Cell("Dirt", 0)

(***************************************************************************)
(* C27: Lightning charges what is near it and fades                        *)
(***************************************************************************)
\* the Lightning handler was dispatched on cell last.i
LightningVisited == last.op = "visit" /\ last.h = "lightning"

\* the cells of the 5x5 neighbourhood of the visited cell
Nbrs24OfLast ==
    {j \in DOMAIN cells :
        \E k \in DOMAIN Nbr24 :
            /\ in_bounds(pre, last.x + Nbr24[k][1], last.y + Nbr24[k][2])
            /\ j = idx(pre, last.x + Nbr24[k][1], last.y + Nbr24[k][2])}

\* the charge Lightning gives the element e
StruckCharge(e) == IF e \in {"Wire", "Metal"} THEN 12 ELSE 8

\* the cell j has at least the charge Lightning gives, and the charge it had
\* if that was higher
Struck(j) ==
    cells[j] = Cell(pre.cells[j].elem, Max(pre.cells[j].life, StruckCharge(pre.cells[j].elem)))

\* the visited Lightning cell has lost 1 life, and is Empty if that left none
Faded ==
    cells[last.i] = IF pre.cells[last.i].life - 1 <= 0 THEN DefaultCell
                    ELSE Cell("Lightning", pre.cells[last.i].life - 1)

\* the grid held nothing that Lightning detonates when the first step began
NoExplosives == \A j \in DOMAIN grid0 : grid0[j].elem \notin {"Gunpowder", "Hydrogen", "Gas"}

\* C27 as stated: after a Lightning cell's handler has run, every Wire/Metal
\* cell of its 5x5 neighbourhood has life >= 12 and every Water/SaltWater
\* cell there life >= 8, no higher charge has been lowered, and the Lightning
\* cell has lost 1 life, being Empty with life 0 when that reaches 0.
C27_LightningCharges ==
    LightningVisited =>
        /\ \A j \in Nbrs24OfLast : pre.cells[j].elem \in Carriers => Struck(j)
        /\ Faded

\* C27, amended: the same for the Wire and Metal cells; for the Water and
\* SaltWater cells and for the Lightning cell itself unless the handler
\* detonated a Gunpowder, Hydrogen or Gas cell of the neighbourhood, in which
\* case the explosion has replaced the Lightning cell, and may have replaced
\* the water, by Fire, Smoke or Gas; and a bolt placed with life 2 in a grid
\* with nothing to detonate has life 1 after one tick and is gone after two
\* (its cell is Empty when its handler returns, and water may flow in later).
C27_LightningChargesUnlessBlasted ==
    /\ LightningVisited =>
          /\ \A j \in Nbrs24OfLast :
                /\ pre.cells[j].elem \in {"Wire", "Metal"} => Struck(j)
                /\ pre.cells[j].elem \in {"Water", "SaltWater"}
                      => (Struck(j) \/ (exlog # <<>> /\ cells[j] \in BlastProducts))
          /\ IF exlog = <<>> THEN Faded
             ELSE \E c \in BlastProducts : cells[last.i] = Cell(c.elem, c.life - 1)
    /\ (pc = "idle" /\ ticks >= 1 /\ NoExplosives) =>
          \A j \in DOMAIN grid0 :
              grid0[j] = Cell("Lightning", 2) =>
                  IF ticks = 1 THEN cells[j] = Cell("Lightning", 1)
                  ELSE cells[j].elem # "Lightning"

\* a Lightning cell with life 1 has faded to Empty, having raised a Metal
\* cell from 5 to 12 and a Water cell from 0 to 8 and left a Wire at 20
C27_Witness ==
    /\ LightningVisited
    /\ pre.cells[last.i] = Cell("Lightning", 1)
    /\ cells[last.i] = DefaultCell
    /\ \E j \in Nbrs24OfLast : pre.cells[j] = Cell("Metal", 5) /\ cells[j] = Cell("Metal", 12)
    /\ \E j \in Nbrs24OfLast : pre.cells[j] = Cell("Wire", 20) /\ cells[j] = Cell("Wire", 20)
    /\ \E j \in Nbrs24OfLast : pre.cells[j] = Cell("Water", 0) /\ cells[j] = Cell("Water", 8)

(***************************************************************************)
(* C28: a Zombie infects or burns every Human beside it                    *)
(***************************************************************************)
\* the Zombie handler was dispatched on cell last.i, and the Zombie neither
\* died (a hazard or charged water in its 3x3 block) nor fell (Empty or a
\* gas below it)
ZombieStood ==
    /\ last.op = "visit"
    /\ last.h = "zombie"
    /\ ~ActorKilled(pre, last.x, last.y)
    /\ ~(in_bounds(pre, last.x, last.y + 1)
         /\ LiquidCanEnter(ElemAt(pre, last.x, last.y + 1)))

\* C28: when a Zombie handler runs without the Zombie dying or falling,
\* every cell of its 8-neighbourhood that held a Human is afterwards Zombie
\* with life 0 or Fire with life 10.
C28_InfectsAll ==
    ZombieStood =>
        \A j \in NbrsOfLast :
            pre.cells[j].elem = "Human" => cells[j] \in {Cell("Zombie", 0), Cell("Fire", 10)}

\* a Zombie has infected one of the Humans beside it and set another on fire
C28_Witness ==
    /\ ZombieStood
    /\ \E j \in NbrsOfLast : pre.cells[j].elem = "Human" /\ cells[j] = Cell("Zombie", 0)
    /\ \E j \in NbrsOfLast : pre.cells[j].elem = "Human" /\ cells[j] = Cell("Fire", 10)

(***************************************************************************)
(* C29: the actor that sets the walking direction                          *)
(***************************************************************************)
\* the Human or Zombie handler was dispatched on cell last.i, and the actor
\* neither died nor fell
ActorStood ==
    /\ last.op = "visit"
    /\ last.h \in {"human", "zombie"}
    /\ ~ActorKilled(pre, last.x, last.y)
    /\ ~(in_bounds(pre, last.x, last.y + 1)
         /\ LiquidCanEnter(ElemAt(pre, last.x, last.y + 1)))

\* the opposing actors in the 13x13 window centred on the visited cell,
\* clipped to the grid, as <<column, row>>
Opposing ==
    {p \in (0 .. width - 1) \X (0 .. height - 1) :
        /\ p[1] - last.x \in -6 .. 6
        /\ p[2] - last.y \in -6 .. 6
        /\ pre.cells[p[2] * width + p[1]].elem
              = (IF last.h = "human" THEN "Zombie" ELSE "Human")}

\* the first of them row by row from the top-left
FirstFound ==
    CHOOSE p \in Opposing :
        \A q \in Opposing : p[2] < q[2] \/ (p[2] = q[2] /\ p[1] <= q[1])

\* the direction the claim gives: a Human walks away from the first found
\* and a Zombie toward it; with none there the direction is the one draw of
\* chance(50) the handler makes (no neighbour to attack, so it is the first)
StatedDir ==
    IF Opposing = {} THEN (IF chance(pre.rng, 50).b THEN 1 ELSE -1)
    ELSE IF last.h = "human" THEN (IF FirstFound[1] < last.x THEN 1 ELSE -1)
    ELSE (IF FirstFound[1] > last.x THEN 1 ELSE -1)

\* C29: the opposing actor that sets the walking direction is the first one
\* met when the 13x13 window is scanned row by row from the top-left, not the
\* nearest; a Human walks away from it and a Zombie toward it, and with none
\* in the window the direction is random: when the cell in that direction is
\* Empty or a gas, the actor has walked into it.
C29_FirstFound ==
    (ActorStood /\ in_bounds(pre, last.x + StatedDir, last.y)
        /\ LiquidCanEnter(ElemAt(pre, last.x + StatedDir, last.y))) =>
        /\ cells[last.i + StatedDir] =
              Cell(pre.cells[last.i].elem, pre.cells[last.i].life + 1)
        /\ cells[last.i] = pre.cells[last.i + StatedDir]

\* a Human has walked right, away from the Zombie found first, in the top row
\* to its left, and toward a Zombie two cells to its right on its own row
C29_Witness ==
    /\ ActorStood
    /\ last.h = "human"
    /\ Cardinality(Opposing) = 2
    /\ FirstFound[1] < last.x /\ FirstFound[2] < last.y
    /\ last.x + 2 < width
    /\ pre.cells[last.i + 2].elem = "Zombie"
    /\ cells[last.i + 1].elem = "Human"

(***************************************************************************)
(* C30: what becomes of a detonated neighbour                              *)
(***************************************************************************)
\* a Fire, Lightning or conductor handler has returned after calling explode
Detonated ==
    /\ last.op = "visit"
    /\ last.h \in {"fire", "lightning", "conductor"}
    /\ exlog # <<>>

\* the index of the cell the explosion e was centred on
CentreOf(e) == e.cy * width + e.cx

\* C30 as stated: when a Fire, Lightning or charged-conductor handler has
\* triggered explode centred on a neighbouring Gunpowder, Hydrogen or Gas
\* cell, then when the handler returns the centre cell is no longer the
\* original material but Fire, Smoke or Gas.
C30_DetonatedIsConsumed ==
    Detonated =>
        \A k \in DOMAIN exlog :
            /\ cells[CentreOf(exlog[k])] # exlog[k].before[CentreOf(exlog[k])]
            /\ cells[CentreOf(exlog[k])].elem \in {"Fire", "Smoke", "Gas"}

\* what the handlers leave instead: the cell they detonated, as it was
C30_DetonatedIsRestored ==
    Detonated =>
        cells[CentreOf(exlog[Len(exlog)])].elem
            = exlog[Len(exlog)].before[CentreOf(exlog[Len(exlog)])].elem

(***************************************************************************)
(* C31: a powder changes places with the cell it moves into                *)
(***************************************************************************)
\* the three cells a powder at (last.x, last.y) can move into
PowderTargets ==
    {j \in DOMAIN cells :
        \E dx \in -1 .. 1 :
            /\ in_bounds(pre, last.x + dx, last.y + 1)
            /\ j = idx(pre, last.x + dx, last.y + 1)}

\* the powder handler was dispatched on cell last.i and moved the powder
\* into the Empty or liquid cell j
PowderMovedTo(j) ==
    /\ last.op = "visit"
    /\ last.h = "powder"
    /\ j \in PowderTargets
    /\ PowderCanEnter(pre.cells[j].elem)
    /\ cells[j] = pre.cells[last.i]

\* C31 as stated: when a powder cell has moved straight down or diagonally
\* down into an Empty or liquid cell, the displaced cell sits at the powder's
\* former position with its element and its life unchanged when the handler
\* returns.
C31_PowderSwaps ==
    \A j \in DOMAIN cells : PowderMovedTo(j) => cells[last.i] = pre.cells[j]

\* C31 for the powders without a rule of their own (Gunpowder, Ash), and for
\* Snow that has no Fire or Lava around the place it left
C31_PlainPowderSwaps ==
    \A j \in DOMAIN cells :
        (/\ PowderMovedTo(j)
         /\ pre.cells[last.i].elem # "Sand"
         /\ ~(pre.cells[last.i].elem = "Snow" /\ SnowVisitedNearHeat))
            => cells[last.i] = pre.cells[j]

(***************************************************************************)
(* C32: what a gas leaves where it was                                     *)
(***************************************************************************)
\* the gas handler was dispatched on cell last.i and moved the gas into the
\* Empty cell j
GasMovedTo(j) ==
    /\ GasVisited
    /\ j # last.i
    /\ pre.cells[j].elem = "Empty"
    /\ cells[j] = pre.cells[last.i]

\* C32 as stated: when a gas cell has moved into an Empty cell, the position
\* it vacated is Empty with life 0 when the handler returns, and the grid has
\* no more non-Empty cells than before.
C32_GasLeavesEmpty ==
    \A j \in DOMAIN cells :
        GasMovedTo(j) =>
            /\ cells[last.i] = DefaultCell
            /\ Cardinality(NonEmpty(cells)) <= Cardinality(NonEmpty(pre.cells))

\* what the vacated position holds instead: what the expiry of that gas may
\* leave, a Fire cell for Gas, or what an explosion leaves for Hydrogen
C32_GasLeavesRemains ==
    \A j \in DOMAIN cells :
        GasMovedTo(j) =>
            \/ cells[last.i] \in GasRemains(pre.cells[last.i].elem)
            \/ pre.cells[last.i].elem = "Gas" /\ cells[last.i] = Cell("Fire", 11)
            \/ pre.cells[last.i].elem = "Hydrogen" /\ exlog # <<>>

(***************************************************************************)
(* C33: Empty cells carry no counter                                       *)
(***************************************************************************)
\* C33: in every state reached from new by place_brush and step calls, every
\* cell whose element is Empty has life 0.
C33_EmptyHasNoLife ==
    \A j \in DOMAIN cells : cells[j].elem = "Empty" => cells[j].life = 0

(***************************************************************************)
(* C34: Wall is inert under simulation                                     *)
(***************************************************************************)
\* the cells that held Wall in the grid g
Walls(g) == {j \in DOMAIN g : g[j].elem = "Wall"}

\* C34: no visit of the scan changes the element or the life of a Wall cell
\* or moves it, and when step has returned every cell that held Wall when it
\* was called holds the same Wall cell.
C34_WallInert ==
    /\ last.op = "visit" => \A j \in Walls(pre.cells) : cells[j] = pre.cells[j]
    /\ (pc = "idle" /\ ticks >= 1) => \A j \in Walls(tick0) : cells[j] = tick0[j]

\* an explosion has covered a Wall cell with life 5 and changed the cell
\* above it, and the Wall cell is as it was
C34_Witness ==
    /\ last.op = "visit"
    /\ exlog # <<>>
    /\ pre.cells[width + 1] = Cell("Wall", 5)
    /\ cells[width + 1] = Cell("Wall", 5)
    /\ cells[1] # pre.cells[1]

(***************************************************************************)
(* C35: charge dies out                                                    *)
(***************************************************************************)
\* the greatest life of a Wire or Metal cell of the grid g, 0 when there is none
TopCharge(g) ==
    LET Q == {g[j].life : j \in {i \in DOMAIN g : g[i].elem \in {"Wire", "Metal"}}} \cup {0}
    IN  CHOOSE q \in Q : \A r \in Q : r <= q

\* the grid g holds Wire, Metal, Wall and Empty cells only, the Empty ones
\* with life 0
OnlyConductors(g) ==
    \A j \in DOMAIN g : g[j].elem \in {"Wire", "Metal", "Wall"} \/ g[j] = DefaultCell

\* C35: in a grid of Wire, Metal, Wall and Empty cells, when step has
\* returned the greatest charge is lower than it was when step was called if
\* that was positive, and the grid is unchanged if it was 0; so after M steps,
\* M the greatest charge at the first step, every conductor has life 0.
C35_ChargeDiesOut ==
    (pc = "idle" /\ ticks >= 1 /\ OnlyConductors(tick0)) =>
        /\ OnlyConductors(cells)
        /\ TopCharge(tick0) > 0 => TopCharge(cells) < TopCharge(tick0)
        /\ TopCharge(tick0) = 0 => cells = tick0
        /\ ticks >= TopCharge(grid0) => TopCharge(cells) = 0

\* a charge of 3 has died out in the third step, having spread to other
\* conductors on the way, and the fourth step has changed nothing
C35_Witness ==
    /\ pc = "idle"
    /\ ticks = 4
    /\ TopCharge(grid0) = 3
    /\ Cardinality({j \in DOMAIN grid0 : grid0[j].life > 0}) = 1
    /\ TopCharge(tick0) = 0
    /\ cells = tick0
    /\ cells # grid0

(***************************************************************************)
(* C36: quiescent worlds are fixed points                                  *)
(***************************************************************************)
\* every cell of the grid g is Empty with life 0, Wall, Stone, Glass, Dirt,
\* Wood, Coal, Ice, or Wire or Metal with life 0
Quiescent(g) ==
    \A j \in DOMAIN g :
        \/ g[j] = DefaultCell
        \/ g[j].elem \in {"Wall", "Stone", "Glass", "Dirt", "Wood", "Coal", "Ice"}
        \/ g[j].elem \in {"Wire", "Metal"} /\ g[j].life = 0

\* C36: in a quiescent world no visit of the scan changes a cell or draws
\* from the RNG; when step has returned, the grid is the one it was called
\* on, and in a world that was quiescent at its first step, a world without
\* cells included, the RNG is in the state World::new left it in.
C36_QuiescentIsFixed ==
    /\ (last.op = "visit" /\ Quiescent(pre.cells)) => (cells = pre.cells /\ rng = pre.rng)
    /\ (pc = "idle" /\ ticks >= 1 /\ Quiescent(tick0)) => cells = tick0
    /\ (pc = "idle" /\ ticks >= 1 /\ Quiescent(grid0)) => rng = RngNew(drawn[1].seed)

\* two steps have run on a grid of Wood, Ice and Wire and left it as it was
C36_Witness ==
    /\ pc = "idle"
    /\ ticks = 2
    /\ {grid0[j] : j \in DOMAIN grid0} = {Cell("Wood", 0), Cell("Ice", 0), Cell("Wire", 0)}
    /\ cells = grid0
    /\ rng = RngNew(drawn[1].seed)

(***************************************************************************)
(* C37: the size of the cell buffer                                        *)
(***************************************************************************)
\* C37 as stated: when new(w, h, seed) or resize(w, h) has returned, the
\* buffer holds width * height cells, the product taken in 32-bit arithmetic,
\* and the index y * width + x of every corner of the grid that in_bounds
\* accepts is an index of the buffer.
C37_BufferSize ==
    (last.op \in {"new", "resize"} /\ pc # "aborted") =>
        /\ Cardinality(DOMAIN cells) = wrapping_mul(width, height)
        /\ \A x \in {0, width - 1}, y \in {0, height - 1} :
              in_bounds(Wld, x, y) => idx(Wld, x, y) \in DOMAIN cells

\* C37 for the worlds whose width * height fits in 32 bits, in every state
C37_BufferSizeOfSound ==
    (Sound(Wld) /\ pc # "aborted") =>
        /\ Cardinality(DOMAIN cells) = width * height
        /\ \A x \in {0, width - 1}, y \in {0, height - 1} :
              in_bounds(Wld, x, y) => idx(Wld, x, y) \in DOMAIN cells

====
